---- MODULE Spec2Model ----
(***************************************************************************)
(* Model of the BitcoinLE ArmV8 solo miner (src/src/bitcoin-miner.cpp):    *)
(* the mining session coordinator CreateAndProcessBlock, the nonce-range   *)
(* worker proofOfWorkFinder, the shared control block MinerHandler, and    *)
(* the quick filter / full proof-of-work check applied to lane digests.    *)
(*                                                                         *)
(* Word widths are scaled down: the 32-bit nonce is NonceBits wide, a      *)
(* digest is DigestWords words of WordBytes bytes of ByteBits bits.  All   *)
(* arithmetic on these values is taken modulo the scaled width, as the     *)
(* code's uint32_t arithmetic is taken modulo 2^32.                        *)
(*                                                                         *)
(* The SHA-256 hashers (BleMinerTransform1, BleMinerInitialTransform,      *)
(* BleMiner, BleMiner2Way, BleMiner3Way, BleMiner4Way) are modelled at     *)
(* full width, statement by statement, in the specification HashSpec.      *)
(***************************************************************************)
EXTENDS Integers, Sequences, FiniteSets, TLC

\* ------------------------------------------------------------------ bounds
MaxThreads == 2        \* largest MAX_N_THREADS tried
NonceBits == 2         \* width of the nonce word (32 in the source)
HousekeepBatches == 1  \* batch calls per housekeeping period (1000000 in the source)
MaxPeerWaits == 1      \* waitforpeers start value (50 in the source)
MaxTip == 2            \* chain tips the environment can produce
MaxTime == 1           \* largest value of the adjusted clock
ByteBits == 2          \* bits per byte of a digest (8 in the source)
WordBytes == 2         \* bytes per digest word (4 in the source)
DigestWords == 2       \* words per digest (8 in the source)
MaxSeed == 1
SYNC_WAIT == 1         \* last index of a polling window of wait4Sync (10 in the source)
OfflineLimit == 1      \* failed peer probes beyond which the chain is re-synced (600)
MaxProbes == 3         \* failed peer probes wait4Peers is followed through

\* --------------------------------------------------------------- constants
LaneCount == 3         \* nonces hashed per BleMiner3Way call

NonceSpace == 2 ^ NonceBits
Nonces == 0 .. (NonceSpace - 1)
HousekeepPeriod == LaneCount * HousekeepBatches
ByteBase == 2 ^ ByteBits
WordBase == ByteBase ^ WordBytes
Words == 0 .. (WordBase - 1)
DigestBytes == WordBytes * DigestWords
Digests == [1 .. DigestWords -> Words]
Threads == 0 .. (MaxThreads - 1)
NoHash == 0            \* the empty std::string of hashPrevBlock / chaintipblockhash
Indeterminate == -1    \* an element of new uint32_t[] nobody has written yet

\* ------------------------------------------------------- uint32 arithmetic
U32(x) == x % NonceSpace

\* line 5473: uint32_t PAGE_SIZE_MINER = 0x100000000 / MAX_N_THREADS
PAGE_SIZE_MINER(n) == U32(NonceSpace \div n)

\* line 5475: the arguments i * PAGE_SIZE_MINER and (i + 1) * PAGE_SIZE_MINER
RangeFrom(i, n) == U32(i * PAGE_SIZE_MINER(n))
RangeTo(i, n) == U32((i + 1) * PAGE_SIZE_MINER(n))

\* line 5980, negated: the nonces the code treats as inside [from, to)
InRange(x, f, t) == ~(x >= t \/ x < f)

\* ------------------------------------------------------------ digest words
RECURSIVE Bswap(_, _)
\* vrev32q_u8 on one word of k bytes: the bytes in reverse order
Bswap(w, k) ==
    IF k = 0 THEN 0
    ELSE (w % ByteBase) * ByteBase ^ (k - 1) + Bswap(w \div ByteBase, k - 1)

\* lines 5884-5885: both vectors of a lane's digest byte swapped
SwapDigest(d) == [j \in 1 .. DigestWords |-> Bswap(d[j], WordBytes)]

RECURSIVE LimbValue(_, _)
\* the number a uint256 holds: limb j carries weight WordBase^(j-1)
LimbValue(h, j) ==
    IF j = 0 THEN 0 ELSE h[j] * WordBase ^ (j - 1) + LimbValue(h, j - 1)

UintToArith(h) == LimbValue(h, DigestWords)

\* lines 5881, 5904, 5926: msgctx.val[7][3] == 0 on the unswapped digest
QuickFilter(d) == d[DigestWords] = 0

\* compact bits: one size byte above one mantissa byte whose top bit is the sign
CompactSize(bits) == bits \div ByteBase
CompactWord(bits) == (bits % ByteBase) % (ByteBase \div 2)
CompactNegative(bits) == CompactWord(bits) # 0 /\ (bits % ByteBase) >= ByteBase \div 2
CompactOverflow(bits) == CompactWord(bits) # 0 /\ CompactSize(bits) > DigestBytes
SetCompact(bits) ==
    IF CompactSize(bits) = 0 \/ CompactOverflow(bits) THEN 0
    ELSE CompactWord(bits) * ByteBase ^ (CompactSize(bits) - 1)

\* the full check: target decodes, is positive, and the hash does not exceed it
CheckProofOfWork(h, bits) ==
    /\ ~CompactNegative(bits)
    /\ ~CompactOverflow(bits)
    /\ SetCompact(bits) # 0
    /\ UintToArith(h) <= SetCompact(bits)

AllBits == 0 .. ((DigestBytes + 2) * ByteBase - 1)

\* ------------------------------------------------------------------ blocks
\* CBlock(): every header field zero; IsNull() tests nBits
NullBlock == [hashPrevBlock |-> NoHash, nBits |-> 0, nTime |-> 0, nNonce |-> 0]
IsNull(b) == b.nBits = 0

\* the digests the model lets the hasher produce: all zero; last word zero over a
\* nonzero rest; last word nonzero
ZeroDigest == [j \in 1 .. DigestWords |-> 0]
LowDigest == [j \in 1 .. DigestWords |-> IF j = DigestWords THEN 0 ELSE WordBase - 1]
HighDigest == [j \in 1 .. DigestWords |-> IF j = DigestWords THEN 1 ELSE 0]
LowBits == ByteBase + 1
Times == 0 .. MaxTime
\* the headers of one template that hash to the zero digest: none, one, or two
\* that differ in the nonce
Oracles ==
    {{}} \cup {{<<n, t>>} : n \in Nonces, t \in Times}
         \cup {{<<n, 0>>, <<m, 0>>} : n, m \in Nonces}

\* a lane wins when it passes the quick filter and then the full check
LaneWins(d, bits) == QuickFilter(d) /\ CheckProofOfWork(SwapDigest(d), bits)

\* ---------------------------------------------------------------------------
\* The NEON SHA-256 hashers.  A uint32_t lane is kept as <<high half, low half>>
\* with 16-bit halves, so that all arithmetic is exact modulo 2^32; a uint32x4_t
\* is a tuple of four lanes and a byte is a number in 0 .. 255.
\* ---------------------------------------------------------------------------
HalfBase == 2 ^ 16
OctetBase == 2 ^ 8
ZeroLane == <<0, 0>>

RECURSIVE BitEor(_, _)
\* exclusive or of two naturals, bit by bit
BitEor(a, b) ==
    IF a = 0 THEN b
    ELSE IF b = 0 THEN a
    ELSE ((a + b) % 2) + 2 * BitEor(a \div 2, b \div 2)

RECURSIVE BitAnd(_, _)
\* conjunction of two naturals, bit by bit
BitAnd(a, b) ==
    IF a = 0 \/ b = 0 THEN 0
    ELSE ((a % 2) * (b % 2)) + 2 * BitAnd(a \div 2, b \div 2)

EOR(x, y) == <<BitEor(x[1], y[1]), BitEor(x[2], y[2])>>
AND(x, y) == <<BitAnd(x[1], y[1]), BitAnd(x[2], y[2])>>
ORR(x, y) ==
    <<x[1] + y[1] - BitAnd(x[1], y[1]), x[2] + y[2] - BitAnd(x[2], y[2])>>

\* 32-bit addition with the carry out of bit 31 dropped
ADD32(x, y) ==
    <<(x[1] + y[1] + ((x[2] + y[2]) \div HalfBase)) % HalfBase,
      (x[2] + y[2]) % HalfBase>>

\* rotate right and logical shift right by n bits, 0 < n < 32
ROR(x, n) ==
    LET y == IF n >= 16 THEN <<x[2], x[1]>> ELSE x
        m == n % 16
    IN  IF m = 0 THEN y
        ELSE <<(y[1] \div 2 ^ m) + (y[2] % 2 ^ m) * 2 ^ (16 - m),
               (y[2] \div 2 ^ m) + (y[1] % 2 ^ m) * 2 ^ (16 - m)>>

LSR(x, n) ==
    IF n >= 16 THEN <<0, x[1] \div 2 ^ (n - 16)>>
    ELSE <<x[1] \div 2 ^ n, (x[2] \div 2 ^ n) + (x[1] % 2 ^ n) * 2 ^ (16 - n)>>

\* the helper functions of the SHA256H, SHA256H2, SHA256SU0 and SHA256SU1
\* instructions
SHAchoose(x, y, z) == EOR(AND(EOR(y, z), x), z)
SHAmajority(x, y, z) == ORR(AND(x, y), AND(ORR(x, y), z))
SHAhashSIGMA0(x) == EOR(EOR(ROR(x, 2), ROR(x, 13)), ROR(x, 22))
SHAhashSIGMA1(x) == EOR(EOR(ROR(x, 6), ROR(x, 11)), ROR(x, 25))
SHAsigma0(x) == EOR(EOR(ROR(x, 7), ROR(x, 18)), LSR(x, 3))
SHAsigma1(x) == EOR(EOR(ROR(x, 17), ROR(x, 19)), LSR(x, 10))

RECURSIVE SHA256hash(_, _, _, _)
\* four rounds on the state halves X = abcd and Y = efgh with the four
\* schedule-plus-constant words W, starting at element e
SHA256hash(X, Y, W, e) ==
    IF e > 4 THEN <<X, Y>>
    ELSE LET t == ADD32(ADD32(ADD32(Y[4], SHAhashSIGMA1(Y[1])),
                              SHAchoose(Y[1], Y[2], Y[3])), W[e])
             x4 == ADD32(t, X[4])
             y4 == ADD32(ADD32(t, SHAhashSIGMA0(X[1])),
                         SHAmajority(X[1], X[2], X[3]))
         IN  SHA256hash(<<y4, X[1], X[2], X[3]>>, <<x4, Y[1], Y[2], Y[3]>>,
                        W, e + 1)

vsha256hq_u32(hash_abcd, hash_efgh, wk) ==
    SHA256hash(hash_abcd, hash_efgh, wk, 1)[1]

vsha256h2q_u32(hash_efgh, hash_abcd, wk) ==
    SHA256hash(hash_abcd, hash_efgh, wk, 1)[2]

vsha256su0q_u32(w0_3, w4_7) ==
    <<ADD32(SHAsigma0(w0_3[2]), w0_3[1]), ADD32(SHAsigma0(w0_3[3]), w0_3[2]),
      ADD32(SHAsigma0(w0_3[4]), w0_3[3]), ADD32(SHAsigma0(w4_7[1]), w0_3[4])>>

vsha256su1q_u32(tw0_3, w8_11, w12_15) ==
    LET r1 == ADD32(ADD32(SHAsigma1(w12_15[3]), tw0_3[1]), w8_11[2])
        r2 == ADD32(ADD32(SHAsigma1(w12_15[4]), tw0_3[2]), w8_11[3])
        r3 == ADD32(ADD32(SHAsigma1(r1), tw0_3[3]), w8_11[4])
        r4 == ADD32(ADD32(SHAsigma1(r2), tw0_3[4]), w12_15[1])
    IN  <<r1, r2, r3, r4>>

vaddq_u32(a, b) ==
    <<ADD32(a[1], b[1]), ADD32(a[2], b[2]), ADD32(a[3], b[3]), ADD32(a[4], b[4])>>

\* a lane left in the byte order it was loaded in
Rev32_None(x) == x

\* byte reversal inside each 32-bit lane
Rev32(x) ==
    <<(x[2] % OctetBase) * OctetBase + x[2] \div OctetBase,
      (x[1] % OctetBase) * OctetBase + x[1] \div OctetBase>>

vrev32q_u8(a) == <<Rev32(a[1]), Rev32(a[2]), Rev32(a[3]), Rev32(a[4])>>

\* the lane a little-endian load makes of the four bytes at offset k (from 0)
LoadLane(bytes, k) ==
    <<bytes[k + 4] * OctetBase + bytes[k + 3],
      bytes[k + 2] * OctetBase + bytes[k + 1]>>

\* a 16-byte load at byte offset k, as *input32++ does
LoadVec(bytes, k) ==
    <<LoadLane(bytes, k), LoadLane(bytes, k + 4),
      LoadLane(bytes, k + 8), LoadLane(bytes, k + 12)>>

\* incrementing a uint32_t lane wraps at 2^32
IncLane(x) == ADD32(x, <<0, 1>>)

K ==
    <<
    <<17034, 12184>>, <<28983, 17553>>, <<46528, 64463>>, <<59829, 56229>>,
    <<14678, 49755>>, <<23025, 4593>>, <<37439, 33444>>, <<43804, 24277>>,
    <<55303, 43672>>, <<4739, 23297>>, <<9265, 34238>>, <<21772, 32195>>,
    <<29374, 23924>>, <<32990, 45566>>, <<39900, 1703>>, <<49563, 61812>>,
    <<58523, 27073>>, <<61374, 18310>>, <<4033, 40390>>, <<9228, 41420>>,
    <<11753, 11375>>, <<19060, 33962>>, <<23728, 43484>>, <<30457, 35034>>,
    <<38974, 20818>>, <<43057, 50797>>, <<45059, 10184>>, <<48985, 32711>>,
    <<50912, 3059>>, <<54695, 37191>>, <<1738, 25425>>, <<5161, 10599>>,
    <<10167, 2693>>, <<11803, 8504>>, <<19756, 28156>>, <<21304, 3347>>,
    <<25866, 29524>>, <<30314, 2747>>, <<33218, 51502>>, <<37490, 11397>>,
    <<41663, 59553>>, <<43034, 26187>>, <<49739, 35696>>, <<51052, 20899>>,
    <<53650, 59417>>, <<54937, 1572>>, <<62478, 13701>>, <<4202, 41072>>,
    <<6564, 49430>>, <<7735, 27656>>, <<10056, 30540>>, <<13488, 48309>>,
    <<14620, 3251>>, <<20184, 43594>>, <<23452, 51791>>, <<26670, 28659>>,
    <<29839, 33518>>, <<30885, 25455>>, <<33992, 30740>>, <<36039, 520>>,
    <<37054, 65530>>, <<42064, 27883>>, <<48889, 41975>>, <<50801, 30962>>
    >>

vld1q_u32(k) == <<K[k + 1], K[k + 2], K[k + 3], K[k + 4]>>


\* ---------------------------------------------------------------------------
\* Reference double SHA-256 (FIPS 180-4) over a byte string, written from the
\* standard and not from the hashers: the right-hand side of the digest claims.
\* ---------------------------------------------------------------------------
RefWord(bytes, k) ==
    <<bytes[k + 1] * OctetBase + bytes[k + 2],
      bytes[k + 3] * OctetBase + bytes[k + 4]>>

RefZeros(n) == [j \in 1 .. n |-> 0]

\* padding of a message shorter than 8192 bytes
RefPad(msg) ==
    msg \o <<128>> \o RefZeros((8183 - Len(msg)) % 64)
        \o RefZeros(6) \o <<(8 * Len(msg)) \div OctetBase, (8 * Len(msg)) % OctetBase>>

RefCh(x, y, z) == EOR(AND(x, y), AND(<<HalfBase - 1 - x[1], HalfBase - 1 - x[2]>>, z))
RefMaj(x, y, z) == EOR(EOR(AND(x, y), AND(x, z)), AND(y, z))

RECURSIVE RefSchedule(_)
RefSchedule(W) ==
    IF Len(W) = 64 THEN W
    ELSE LET t == Len(W) + 1
         IN  RefSchedule(Append(W,
                 ADD32(ADD32(SHAsigma1(W[t - 2]), W[t - 7]),
                       ADD32(SHAsigma0(W[t - 15]), W[t - 16]))))

RECURSIVE RefRounds(_, _, _)
\* (the test of Len(s) makes each round's state a value before the next round)
RefRounds(s, W, t) ==
    IF t > 64 \/ Len(s) # 8 THEN s
    ELSE LET T1 == ADD32(ADD32(ADD32(s[8], SHAhashSIGMA1(s[5])),
                               RefCh(s[5], s[6], s[7])),
                         ADD32(K[t], W[t]))
             T2 == ADD32(SHAhashSIGMA0(s[1]), RefMaj(s[1], s[2], s[3]))
         IN  RefRounds(<<ADD32(T1, T2), s[1], s[2], s[3],
                         ADD32(s[4], T1), s[5], s[6], s[7]>>, W, t + 1)

RefCompress(H, block) ==
    LET W == RefSchedule([j \in 1 .. 16 |-> RefWord(block, 4 * (j - 1))])
        s == RefRounds(H, W, 1)
    IN  [j \in 1 .. 8 |-> ADD32(H[j], s[j])]

RefIV ==
    <<<<27145, 58983>>, <<47975, 44677>>, <<15470, 62322>>, <<42319, 62778>>,
      <<20750, 21119>>, <<39685, 26764>>, <<8067, 55723>>, <<23520, 52505>>>>

RECURSIVE RefBlocks(_, _)
RefBlocks(H, padded) ==
    IF Len(padded) = 0 THEN H
    ELSE RefBlocks(RefCompress(H, SubSeq(padded, 1, 64)),
                   SubSeq(padded, 65, Len(padded)))

\* the digest as eight big-endian words
RefSha256(msg) == RefBlocks(RefIV, RefPad(msg))

RefBytes(words) ==
    [j \in 1 .. 4 * Len(words) |->
        LET w == words[(j - 1) \div 4 + 1]
            h == w[(((j - 1) % 4) \div 2) + 1]
        IN  IF j % 2 = 1 THEN h \div OctetBase ELSE h % OctetBase]

RefSha256d(msg) == RefSha256(RefBytes(RefSha256(msg)))


\* ------------------------------------------------------------------- state
VARIABLES
    nThreads,          \* MAX_N_THREADS
    found, interrupt, stop, handlerBlock, currentOffset,   \* MinerHandler
    connected,         \* what hasPeers() returns
    chainTip,          \* chainActive.Tip()->GetBlockHash()
    adjustedTime,      \* GetAdjustedTime()
    cpc,               \* position of main / CreateAndProcessBlock
    thdI,              \* loop index of the spawn and join loops
    tmpl,              \* pblocktemplate->block
    retBlock,          \* main's b, the value CreateAndProcessBlock returned
    pc,                \* position of each proofOfWorkFinder thread
    from, to,          \* arguments of each thread
    block,             \* each thread's CBlock copy
    msgctxNonce,       \* msgctx.val[4][3]
    msgctxTime,        \* msgctx.val[4][1]
    hashPrevBlock, chaintipblockhash, waitforpeers,   \* thread locals
    submits,           \* ProcessNewBlock calls made since the threads were spawned
    zeroAt,            \* the (nonce, time) pairs at which the template hashes to zero
    digest, nBits,     \* one lane's outer digest (internal word order) and a target
    verdict,           \* what the lane test made of them
    bleheaders,        \* the 112 header bytes handed to the hashers
    hashTime,          \* the nTime a refresh between two batches writes
    hasher,            \* the hasher call in progress and its next statement
    reg,               \* the hasher's vector registers
    input32,           \* byte offset of the hasher's input pointer
    msgctx,            \* the caller's scratchpad
    minedhashes,       \* the lane digests returned so far
    spc,               \* position in wait4Peers / wait4Sync and their caller
    w4pI,              \* wait4Peers' i
    capI,              \* CreateAndProcessBlock's i, the value wait4Peers returned
    height,            \* wait4Sync's height
    w4sI,              \* wait4Sync's loop index i
    newHeadBlock       \* wait4Sync's newHeadBlock: the tip read at the last poll

handlerVars == <<found, interrupt, stop, handlerBlock, currentOffset>>
envVars == <<connected, chainTip, adjustedTime, zeroAt>>
coordVars == <<nThreads, cpc, thdI, tmpl, retBlock>>
threadArgs == <<from, to>>
threadLocals == <<block, msgctxNonce, msgctxTime, hashPrevBlock, chaintipblockhash,
                  waitforpeers>>
threadVars == <<pc, threadArgs, threadLocals>>
\* a digest and a compact target put to the lane test on their own
hashVars == <<bleheaders, hashTime, hasher, reg, input32, msgctx, minedhashes>>
syncVars == <<spc, w4pI, capI, height, w4sI, newHeadBlock>>
probeVars == <<digest, nBits, verdict, hashVars, syncVars>>
vars == <<handlerVars, envVars, coordVars, threadVars, submits, probeVars>>
minerVars == <<handlerVars, envVars, coordVars, threadVars, submits, digest, nBits,
               verdict, syncVars>>

\* neither wait4Peers nor wait4Sync is running
SyncAtRest ==
    /\ spc = "idle" /\ w4pI = 0 /\ capI = 0
    /\ height = 0 /\ w4sI = 0 /\ newHeadBlock = NoHash

\* no hasher call is in progress
HashIdle == [call |-> 0, ip |-> 0, base |-> ZeroLane, time |-> ZeroLane]
HashAtRest ==
    /\ bleheaders = <<>> /\ hashTime = ZeroLane
    /\ hasher = HashIdle /\ reg = <<>> /\ input32 = 0
    /\ msgctx = <<>> /\ minedhashes = <<>>

Init ==
    /\ nThreads \in 1 .. MaxThreads
    /\ found = FALSE /\ interrupt = FALSE /\ stop = FALSE
    /\ handlerBlock = NullBlock
    /\ currentOffset = [i \in Threads |-> Indeterminate]
    /\ connected \in BOOLEAN
    /\ chainTip = 1
    /\ adjustedTime = 0
    /\ cpc = "main" /\ thdI = 0 /\ tmpl = NullBlock /\ retBlock = NullBlock
    /\ pc = [i \in Threads |-> "idle"]
    /\ from = [i \in Threads |-> 0]
    /\ to = [i \in Threads |-> 0]
    /\ block = [i \in Threads |-> NullBlock]
    /\ msgctxNonce = [i \in Threads |-> 0]
    /\ msgctxTime = [i \in Threads |-> 0]
    /\ hashPrevBlock = [i \in Threads |-> NoHash]
    /\ chaintipblockhash = [i \in Threads |-> NoHash]
    /\ waitforpeers = [i \in Threads |-> 0]
    /\ submits = 0
    /\ zeroAt = {}
    /\ digest = ZeroDigest /\ nBits = 0 /\ verdict = "none"
    /\ HashAtRest
    /\ SyncAtRest

\* ------------------------------------------------------------- environment
\* my_handler, lines 6036-6045: a signal sets handler.interrupt
my_handler ==
    /\ interrupt' = TRUE
    /\ UNCHANGED <<found, stop, handlerBlock, currentOffset, envVars, coordVars,
                   threadVars, submits>>
    /\ UNCHANGED probeVars

\* peers connect or disconnect
PeersChange ==
    /\ connected' = ~connected
    /\ UNCHANGED <<handlerVars, chainTip, adjustedTime, zeroAt, coordVars, threadVars,
                   submits>>
    /\ UNCHANGED probeVars

\* the active chain gets a new tip
TipChange ==
    /\ chainTip < MaxTip
    /\ chainTip' = chainTip + 1
    /\ UNCHANGED <<handlerVars, connected, adjustedTime, zeroAt, coordVars, threadVars,
                   submits>>
    /\ UNCHANGED probeVars

\* the adjusted clock advances
Tick ==
    /\ adjustedTime < MaxTime
    /\ adjustedTime' = adjustedTime + 1
    /\ UNCHANGED <<handlerVars, connected, chainTip, zeroAt, coordVars, threadVars,
                   submits>>
    /\ UNCHANGED probeVars

\* ------------------------------------------------------------- coordinator
\* main, lines 6148-6155: leave on interrupt, else call CreateAndProcessBlock
MainLoop ==
    /\ cpc = "main"
    /\ cpc' = IF interrupt THEN "exit" ELSE "beat"
    /\ retBlock' = NullBlock
    /\ UNCHANGED <<handlerVars, envVars, nThreads, thdI, tmpl, threadVars, submits>>
    /\ UNCHANGED probeVars

\* WaitBeat without lines 5400-5402: the loop goes on without a peer
WaitBeat_NoPeerTest ==
    /\ cpc = "beat"
    /\ IF interrupt
       THEN cpc' = "main"
       ELSE \E beat \in BOOLEAN : cpc' = IF beat THEN "build" ELSE "beat"
    /\ UNCHANGED <<handlerVars, envVars, nThreads, thdI, tmpl, retBlock, threadVars,
                   submits>>
    /\ UNCHANGED probeVars

\* lines 5396-5445: wait for a metronome beat; give up on interrupt or no peers
WaitBeat ==
    /\ cpc = "beat"
    /\ IF interrupt \/ ~connected
       THEN cpc' = "main"
       ELSE \E beat \in BOOLEAN : cpc' = IF beat THEN "build" ELSE "beat"
    /\ UNCHANGED <<handlerVars, envVars, nThreads, thdI, tmpl, retBlock, threadVars,
                   submits>>
    /\ UNCHANGED probeVars

\* lines 5447-5467: the template is built on the current tip; which of its headers
\* hash to zero is fixed with it
BuildTemplate ==
    /\ cpc = "build"
    /\ tmpl' = [hashPrevBlock |-> chainTip, nBits |-> LowBits,
                nTime |-> adjustedTime, nNonce |-> 0]
    /\ zeroAt' \in Oracles
    /\ cpc' = "clear"
    /\ UNCHANGED <<handlerVars, connected, chainTip, adjustedTime, nThreads, thdI,
                   retBlock, threadVars, submits>>
    /\ UNCHANGED probeVars

\* clear without lines 62-66: the handler keeps what the last session left in it
clear_KeepsState ==
    /\ cpc = "clear"
    /\ cpc' = "spawn" /\ thdI' = 0
    /\ UNCHANGED <<handlerVars, envVars, nThreads, tmpl, retBlock, threadVars, submits>>
    /\ UNCHANGED probeVars

\* MinerHandler::clear, called at line 5469
clear ==
    /\ cpc = "clear"
    /\ found' = FALSE
    /\ handlerBlock' = NullBlock
    /\ interrupt' = FALSE
    /\ stop' = FALSE
    /\ cpc' = "spawn" /\ thdI' = 0
    /\ UNCHANGED <<currentOffset, envVars, nThreads, tmpl, retBlock, threadVars,
                   submits>>
    /\ UNCHANGED probeVars

\* lines 5474-5477: one std::thread per iteration
Spawn ==
    /\ cpc = "spawn"
    /\ pc' = [pc EXCEPT ![thdI] = "start"]
    /\ from' = [from EXCEPT ![thdI] = RangeFrom(thdI, nThreads)]
    /\ to' = [to EXCEPT ![thdI] = RangeTo(thdI, nThreads)]
    /\ block' = [block EXCEPT ![thdI] = tmpl]
    /\ submits' = IF thdI = 0 THEN 0 ELSE submits
    /\ IF thdI + 1 < nThreads
       THEN thdI' = thdI + 1 /\ UNCHANGED cpc
       ELSE thdI' = 0 /\ cpc' = "join"
    /\ UNCHANGED <<handlerVars, envVars, nThreads, tmpl, retBlock, msgctxNonce,
                   msgctxTime, hashPrevBlock, chaintipblockhash, waitforpeers>>
    /\ UNCHANGED probeVars

\* Join with detach in place of join: the loop does not wait for the thread
Join_NoWait ==
    /\ cpc = "join"
    /\ IF thdI + 1 < nThreads
       THEN thdI' = thdI + 1 /\ UNCHANGED cpc
       ELSE thdI' = 0 /\ cpc' = "ret"
    /\ UNCHANGED <<handlerVars, envVars, nThreads, tmpl, retBlock, threadVars, submits>>
    /\ UNCHANGED probeVars

\* lines 5479-5481: join the threads in order
Join ==
    /\ cpc = "join"
    /\ pc[thdI] = "done"
    /\ pc' = [pc EXCEPT ![thdI] = "idle"]
    /\ IF thdI + 1 < nThreads
       THEN thdI' = thdI + 1 /\ UNCHANGED cpc
       ELSE thdI' = 0 /\ cpc' = "ret"
    /\ UNCHANGED <<handlerVars, envVars, nThreads, tmpl, retBlock, threadArgs,
                   threadLocals, submits>>
    /\ UNCHANGED probeVars

\* lines 5483-5487: the stored block if found, else an empty one
ReturnBlock ==
    /\ cpc = "ret"
    /\ retBlock' = IF found THEN handlerBlock ELSE NullBlock
    /\ tmpl' = NullBlock
    /\ cpc' = "main"
    /\ UNCHANGED <<handlerVars, envVars, nThreads, thdI, threadVars, submits>>
    /\ UNCHANGED probeVars

\* ------------------------------------------------------- proofOfWorkFinder
\* what no thread writes
WorkerFrame == UNCHANGED <<envVars, coordVars, probeVars>>

\* a thread that returns: its arguments and locals cease to exist
Return(i) ==
    /\ pc' = [pc EXCEPT ![i] = "done"]
    /\ from' = [from EXCEPT ![i] = 0]
    /\ to' = [to EXCEPT ![i] = 0]
    /\ block' = [block EXCEPT ![i] = NullBlock]
    /\ msgctxNonce' = [msgctxNonce EXCEPT ![i] = 0]
    /\ msgctxTime' = [msgctxTime EXCEPT ![i] = 0]
    /\ hashPrevBlock' = [hashPrevBlock EXCEPT ![i] = NoHash]
    /\ chaintipblockhash' = [chaintipblockhash EXCEPT ![i] = NoHash]
    /\ waitforpeers' = [waitforpeers EXCEPT ![i] = 0]

\* Start without line 5790: the message words are not loaded from the header
Start_NoTransform1(i) ==
    /\ pc[i] = "start"
    /\ block' = [block EXCEPT ![i].nNonce = from[i]]
    /\ currentOffset' = [currentOffset EXCEPT ![i] = 0]
    /\ pc' = [pc EXCEPT ![i] = IF i = 0 THEN "prevhash" ELSE "top"]
    /\ WorkerFrame
    /\ UNCHANGED <<found, interrupt, stop, handlerBlock, threadArgs, msgctxNonce,
                   msgctxTime, hashPrevBlock, chaintipblockhash, waitforpeers, submits>>

\* lines 5775-5790: nonce set to from, progress counter zeroed, Transform1 run
Start(i) ==
    /\ pc[i] = "start"
    /\ block' = [block EXCEPT ![i].nNonce = from[i]]
    /\ currentOffset' = [currentOffset EXCEPT ![i] = 0]
    /\ msgctxNonce' = [msgctxNonce EXCEPT ![i] = from[i]]
    /\ msgctxTime' = [msgctxTime EXCEPT ![i] = block[i].nTime]
    /\ pc' = [pc EXCEPT ![i] = IF i = 0 THEN "prevhash" ELSE "top"]
    /\ WorkerFrame
    /\ UNCHANGED <<found, interrupt, stop, handlerBlock, threadArgs, hashPrevBlock,
                   chaintipblockhash, waitforpeers, submits>>

\* lines 5798-5807: thread 0 reads the template's previous-block hash
PrevHash(i) ==
    /\ pc[i] = "prevhash"
    /\ IF hashPrevBlock[i] = NoHash /\ ~interrupt /\ ~stop
       THEN hashPrevBlock' = [hashPrevBlock EXCEPT ![i] = block[i].hashPrevBlock]
            /\ UNCHANGED pc
       ELSE pc' = [pc EXCEPT ![i] = "top"] /\ UNCHANGED hashPrevBlock
    /\ WorkerFrame
    /\ UNCHANGED <<handlerVars, threadArgs, block, msgctxNonce, msgctxTime,
                   chaintipblockhash, waitforpeers, submits>>

\* line 5953: the housekeeping test on the advanced nonce word
HousekeepingDue(n) == n % HousekeepPeriod = 0

\* LoopTop with the stop test made only when the nonce word is at a housekeeping
\* boundary
LoopTop_StopAtBoundary(i) ==
    /\ pc[i] = "top"
    /\ IF stop /\ HousekeepingDue(msgctxNonce[i])
       THEN /\ currentOffset' = [currentOffset EXCEPT ![i] = U32(msgctxNonce[i] - from[i])]
            /\ block' = [block EXCEPT ![i] = NullBlock]
            /\ pc' = [pc EXCEPT ![i] = "summary"]
       ELSE /\ pc' = [pc EXCEPT ![i] = "batch"]
            /\ UNCHANGED <<currentOffset, block>>
    /\ WorkerFrame
    /\ UNCHANGED <<found, interrupt, stop, handlerBlock, threadArgs, msgctxNonce,
                   msgctxTime, hashPrevBlock, chaintipblockhash, waitforpeers, submits>>

\* LoopTop without the break of line 5817: a thread that reads stop stays at the
\* loop head
LoopTop_NoBreak(i) ==
    /\ pc[i] = "top"
    /\ ~stop
    /\ pc' = [pc EXCEPT ![i] = "batch"]
    /\ WorkerFrame
    /\ UNCHANGED <<handlerVars, threadArgs, threadLocals, submits>>

\* LoopTop without line 5816: a stopped thread keeps its block
LoopTop_KeepBlock(i) ==
    /\ pc[i] = "top"
    /\ IF stop
       THEN /\ currentOffset' = [currentOffset EXCEPT ![i] = U32(msgctxNonce[i] - from[i])]
            /\ pc' = [pc EXCEPT ![i] = "summary"]
       ELSE /\ pc' = [pc EXCEPT ![i] = "batch"]
            /\ UNCHANGED currentOffset
    /\ WorkerFrame
    /\ UNCHANGED <<found, interrupt, stop, handlerBlock, threadArgs, block, msgctxNonce,
                   msgctxTime, hashPrevBlock, chaintipblockhash, waitforpeers, submits>>

\* lines 5810-5818: the stop test at the head of the work loop
LoopTop(i) ==
    /\ pc[i] = "top"
    /\ IF stop
       THEN /\ currentOffset' = [currentOffset EXCEPT ![i] = U32(msgctxNonce[i] - from[i])]
            /\ block' = [block EXCEPT ![i] = NullBlock]
            /\ pc' = [pc EXCEPT ![i] = "summary"]
       ELSE /\ pc' = [pc EXCEPT ![i] = "batch"]
            /\ UNCHANGED <<currentOffset, block>>
    /\ WorkerFrame
    /\ UNCHANGED <<found, interrupt, stop, handlerBlock, threadArgs, msgctxNonce,
                   msgctxTime, hashPrevBlock, chaintipblockhash, waitforpeers, submits>>

\* the digest BleMiner3Way leaves for the header with nonce n and time t
LaneDigest(n, t) ==
    IF <<n, t>> \in zeroAt THEN ZeroDigest
    ELSE IF (n + t) % 2 = 0 THEN LowDigest ELSE HighDigest

\* LaneNonce with each increment made before the lane's message words are loaded
LaneNonce_IncrementFirst(base, k) == U32(base + k)

\* lines 1761-1788: lane k hashes the nonce word after k - 1 increments
LaneNonce(base, k) == U32(base + k - 1)

\* the first lane that wins, 0 when none does (lines 5881, 5904, 5926 in order)
FirstWinner(ds, bits) ==
    IF LaneWins(ds[1], bits) THEN 1
    ELSE IF LaneWins(ds[2], bits) THEN 2
    ELSE IF LaneWins(ds[3], bits) THEN 3
    ELSE 0

\* Batch without the idx == 0 test of line 5964: every thread goes on to the
\* interrupt, chain-tip and exhaustion checks
Batch_EveryThreadChecks(i) ==
    /\ pc[i] = "batch"
    /\ LET ds == [k \in 1 .. LaneCount |->
                     LaneDigest(LaneNonce(msgctxNonce[i], k), msgctxTime[i])]
           next == U32(msgctxNonce[i] + LaneCount)
           w == FirstWinner(ds, block[i].nBits)
       IN  /\ msgctxNonce' = [msgctxNonce EXCEPT ![i] = next]
           /\ IF w # 0
              THEN /\ block' = [block EXCEPT
                                   ![i].nNonce = U32(next - (LaneCount + 1 - w))]
                   /\ stop' = TRUE
                   /\ pc' = [pc EXCEPT ![i] = "summary"]
                   /\ UNCHANGED msgctxTime
              ELSE IF HousekeepingDue(next)
              THEN /\ block' = [block EXCEPT ![i].nTime = adjustedTime]
                   /\ msgctxTime' = [msgctxTime EXCEPT ![i] = adjustedTime]
                   /\ pc' = [pc EXCEPT ![i] = "hk_interrupt"]
                   /\ UNCHANGED stop
              ELSE /\ pc' = [pc EXCEPT ![i] = "top"]
                   /\ UNCHANGED <<block, msgctxTime, stop>>
    /\ WorkerFrame
    /\ UNCHANGED <<found, interrupt, handlerBlock, currentOffset, threadArgs,
                   hashPrevBlock, chaintipblockhash, waitforpeers, submits>>

\* lines 5821-5959: one BleMiner3Way call, the three lane tests, the time refresh
Batch(i) ==
    /\ pc[i] = "batch"
    /\ LET ds == [k \in 1 .. LaneCount |->
                     LaneDigest(LaneNonce(msgctxNonce[i], k), msgctxTime[i])]
           next == U32(msgctxNonce[i] + LaneCount)
           w == FirstWinner(ds, block[i].nBits)
       IN  /\ msgctxNonce' = [msgctxNonce EXCEPT ![i] = next]
           /\ IF w # 0
              THEN /\ block' = [block EXCEPT
                                   ![i].nNonce = U32(next - (LaneCount + 1 - w))]
                   /\ stop' = TRUE
                   /\ pc' = [pc EXCEPT ![i] = "summary"]
                   /\ UNCHANGED msgctxTime
              ELSE IF HousekeepingDue(next)
              THEN /\ block' = [block EXCEPT ![i].nTime = adjustedTime]
                   /\ msgctxTime' = [msgctxTime EXCEPT ![i] = adjustedTime]
                   /\ pc' = [pc EXCEPT ![i] = IF i = 0 THEN "hk_interrupt" ELSE "top"]
                   /\ UNCHANGED stop
              ELSE /\ pc' = [pc EXCEPT ![i] = "top"]
                   /\ UNCHANGED <<block, msgctxTime, stop>>
    /\ WorkerFrame
    /\ UNCHANGED <<found, interrupt, handlerBlock, currentOffset, threadArgs,
                   hashPrevBlock, chaintipblockhash, waitforpeers, submits>>

\* HkInterrupt without lines 5965-5967: the interrupt is not turned into stop
HkInterrupt_Ignored(i) ==
    /\ pc[i] = "hk_interrupt"
    /\ pc' = [pc EXCEPT ![i] = "hk_poll"]
    /\ WorkerFrame
    /\ UNCHANGED <<handlerVars, threadArgs, threadLocals, submits>>

\* lines 5964-5967: thread 0 turns interrupt into stop
HkInterrupt(i) ==
    /\ pc[i] = "hk_interrupt"
    /\ stop' = (stop \/ interrupt)
    /\ pc' = [pc EXCEPT ![i] = "hk_poll"]
    /\ WorkerFrame
    /\ UNCHANGED <<found, interrupt, handlerBlock, currentOffset, threadArgs,
                   threadLocals, submits>>

\* lines 5971-5975: thread 0 polls the chain tip until two reads agree
HkPoll(i) ==
    /\ pc[i] = "hk_poll"
    /\ IF (chaintipblockhash[i] # chainTip \/ chaintipblockhash[i] = NoHash)
          /\ ~stop /\ ~interrupt
       THEN chaintipblockhash' = [chaintipblockhash EXCEPT ![i] = chainTip]
            /\ UNCHANGED pc
       ELSE pc' = [pc EXCEPT ![i] = "hk_stale"] /\ UNCHANGED chaintipblockhash
    /\ WorkerFrame
    /\ UNCHANGED <<handlerVars, threadArgs, block, msgctxNonce, msgctxTime,
                   hashPrevBlock, waitforpeers, submits>>

\* line 5980: the exhaustion test, made on block.nNonce
Exhausted(i) == block[i].nNonce >= to[i] \/ block[i].nNonce < from[i]

\* HkStale without lines 5976-5979: only the exhaustion test is left
HkStale_NoTipTest(i) ==
    /\ pc[i] = "hk_stale"
    /\ stop' = (stop \/ Exhausted(i))
    /\ block' = IF Exhausted(i) THEN [block EXCEPT ![i] = NullBlock] ELSE block
    /\ pc' = [pc EXCEPT ![i] = "top"]
    /\ WorkerFrame
    /\ UNCHANGED <<found, interrupt, handlerBlock, currentOffset, threadArgs,
                   msgctxNonce, msgctxTime, hashPrevBlock, chaintipblockhash,
                   waitforpeers, submits>>

\* lines 5976-5987: stale-tip test, then exhaustion test
HkStale(i) ==
    /\ pc[i] = "hk_stale"
    /\ stop' = (stop \/ chaintipblockhash[i] # hashPrevBlock[i] \/ Exhausted(i))
    /\ block' = IF Exhausted(i) THEN [block EXCEPT ![i] = NullBlock] ELSE block
    /\ pc' = [pc EXCEPT ![i] = "top"]
    /\ WorkerFrame
    /\ UNCHANGED <<found, interrupt, handlerBlock, currentOffset, threadArgs,
                   msgctxNonce, msgctxTime, hashPrevBlock, chaintipblockhash,
                   waitforpeers, submits>>

\* lines 5992-6011: the summary thread 0 prints from currentOffset, the null-block
\* return, the first peer probe
Summary(i) ==
    /\ pc[i] = "summary"
    /\ IF IsNull(block[i])
       THEN Return(i)
       ELSE /\ IF ~connected
               THEN /\ waitforpeers' = [waitforpeers EXCEPT ![i] = MaxPeerWaits]
                    /\ pc' = [pc EXCEPT ![i] = "peers_wait"]
               ELSE /\ pc' = [pc EXCEPT ![i] = "set_found"]
                    /\ UNCHANGED waitforpeers
            /\ UNCHANGED <<threadArgs, block, msgctxNonce, msgctxTime, hashPrevBlock,
                           chaintipblockhash>>
    /\ WorkerFrame
    /\ UNCHANGED <<handlerVars, submits>>

\* lines 6012-6015: the bounded retry loop
PeersWait(i) ==
    /\ pc[i] = "peers_wait"
    /\ IF ~connected /\ waitforpeers[i] # 0
       THEN waitforpeers' = [waitforpeers EXCEPT ![i] = waitforpeers[i] - 1]
            /\ UNCHANGED pc
       ELSE pc' = [pc EXCEPT ![i] = "peers_last"] /\ UNCHANGED waitforpeers
    /\ WorkerFrame
    /\ UNCHANGED <<handlerVars, threadArgs, block, msgctxNonce, msgctxTime,
                   hashPrevBlock, chaintipblockhash, submits>>

\* PeersLast without line 6017: the block is submitted whatever the last probe says
PeersLast_Submit(i) ==
    /\ pc[i] = "peers_last"
    /\ pc' = [pc EXCEPT ![i] = "set_found"]
    /\ WorkerFrame
    /\ UNCHANGED <<handlerVars, threadArgs, threadLocals, submits>>

\* line 6017: give up when the last probe still finds no peer
PeersLast(i) ==
    /\ pc[i] = "peers_last"
    /\ IF ~connected
       THEN Return(i)
       ELSE pc' = [pc EXCEPT ![i] = "set_found"] /\ UNCHANGED <<threadArgs, threadLocals>>
    /\ WorkerFrame
    /\ UNCHANGED <<handlerVars, submits>>

\* line 6020: handler->found = true
SetFound(i) ==
    /\ pc[i] = "set_found"
    /\ found' = TRUE
    /\ pc' = [pc EXCEPT ![i] = "store"]
    /\ WorkerFrame
    /\ UNCHANGED <<interrupt, stop, handlerBlock, currentOffset, threadArgs,
                   threadLocals, submits>>

\* lines 6021-6033: handler->block = block, then ProcessNewBlock, then return
StoreBlock(i) ==
    /\ pc[i] = "store"
    /\ handlerBlock' = block[i]
    /\ submits' = submits + 1
    /\ Return(i)
    /\ WorkerFrame
    /\ UNCHANGED <<found, interrupt, stop, currentOffset>>

proofOfWorkFinder(i) ==
    \/ Start(i) \/ PrevHash(i) \/ LoopTop(i) \/ Batch(i)
    \/ HkInterrupt(i) \/ HkPoll(i) \/ HkStale(i)
    \/ Summary(i) \/ PeersWait(i) \/ PeersLast(i)
    \/ SetFound(i) \/ StoreBlock(i)

\* ------------------------------------------------------------ specification
CreateAndProcessBlock ==
    WaitBeat \/ BuildTemplate \/ clear \/ Spawn \/ Join \/ ReturnBlock

Environment == my_handler \/ PeersChange \/ TipChange \/ Tick

Next ==
    \/ MainLoop
    \/ CreateAndProcessBlock
    \/ \E i \in Threads : proofOfWorkFinder(i)
    \/ Environment

Spec == Init /\ [][Next]_vars

\* every started thread and the joining coordinator keep being scheduled
FairSpec ==
    /\ Spec
    /\ \A i \in Threads : WF_vars(proofOfWorkFinder(i))
    /\ WF_vars(Join \/ ReturnBlock)

\* ------------------------------------------------- the lane test on its own
\* lines 5881-5899 applied to one digest and one compact target
LaneTest ==
    /\ verdict = "none"
    /\ verdict' = IF ~QuickFilter(digest) THEN "skipped"
                  ELSE IF CheckProofOfWork(SwapDigest(digest), nBits) THEN "win"
                  ELSE "rejected"
    /\ UNCHANGED <<handlerVars, envVars, coordVars, threadVars, submits, digest, nBits,
                   hashVars, syncVars>>

FilterInit ==
    /\ nThreads = 1
    /\ found = FALSE /\ interrupt = FALSE /\ stop = FALSE
    /\ handlerBlock = NullBlock
    /\ currentOffset = [i \in Threads |-> Indeterminate]
    /\ connected = TRUE /\ chainTip = 1 /\ adjustedTime = 0
    /\ cpc = "main" /\ thdI = 0 /\ tmpl = NullBlock /\ retBlock = NullBlock
    /\ pc = [i \in Threads |-> "idle"]
    /\ from = [i \in Threads |-> 0]
    /\ to = [i \in Threads |-> 0]
    /\ block = [i \in Threads |-> NullBlock]
    /\ msgctxNonce = [i \in Threads |-> 0]
    /\ msgctxTime = [i \in Threads |-> 0]
    /\ hashPrevBlock = [i \in Threads |-> NoHash]
    /\ chaintipblockhash = [i \in Threads |-> NoHash]
    /\ waitforpeers = [i \in Threads |-> 0]
    /\ submits = 0
    /\ zeroAt = {}
    /\ digest \in Digests /\ nBits \in AllBits /\ verdict = "none"
    /\ HashAtRest
    /\ SyncAtRest

FilterSpec == FilterInit /\ [][LaneTest]_vars

\* ---------------------------------------------------------------------------
\* The hashers as the straight-line register programs they are: each is the
\* sequence of its statements, one instruction per statement, with the source
\* line after it.  An operand is a register name; "val[n]" is element n of the
\* scratchpad structure (uint32_t index 4n of the flat scratchpad).
\* ---------------------------------------------------------------------------

\* the effect of one statement on the registers
Exec(ins, r, bytes, p) ==
    LET op == ins[1]
        v == CASE op = "mov"   -> r[ins[3]]
               [] op = "set"   -> ins[3]
               [] op = "ld"    -> LoadVec(bytes, p)
               [] op = "ldrev" -> vrev32q_u8(LoadVec(bytes, p))
               [] op = "rev"   -> vrev32q_u8(r[ins[3]])
               [] op = "k"     -> vld1q_u32(ins[3])
               [] op = "add"   -> vaddq_u32(r[ins[3]], r[ins[4]])
               [] op = "addc"  -> vaddq_u32(r[ins[3]], ins[4])
               [] op = "su0"   -> vsha256su0q_u32(r[ins[3]], r[ins[4]])
               [] op = "su1"   -> vsha256su1q_u32(r[ins[3]], r[ins[4]], r[ins[5]])
               [] op = "h"     -> vsha256hq_u32(r[ins[3]], r[ins[4]], r[ins[5]])
               [] op = "h2"    -> vsha256h2q_u32(r[ins[3]], r[ins[4]], r[ins[5]])
               [] op = "inc"   -> [r[ins[2]] EXCEPT ![ins[3] + 1] = IncLane(@)]
    IN  (ins[2] :> v) @@ r

\* *input32++ moves the input pointer past the sixteen bytes it loaded
Advance(ins, p) == IF ins[1] \in {"ld", "ldrev"} THEN p + 16 ELSE p

\* the constant vectors of the hashers: the SHA-256 initial state, the padding
\* of the 112-byte header (0x380 = 896 bits) and of the 32-byte first digest
\* (0x100 = 256 bits)
SHA256INIT0 == <<<<27145, 58983>>, <<47975, 44677>>, <<15470, 62322>>, <<42319, 62778>>>>
SHA256INIT1 == <<<<20750, 21119>>, <<39685, 26764>>, <<8067, 55723>>, <<23520, 52505>>>>
PADDING2A == <<<<32768, 0>>, <<0, 0>>, <<0, 0>>, <<0, 0>>>>
PADDING2B == <<<<0, 0>>, <<0, 0>>, <<0, 0>>, <<0, 256>>>>
PADDING1 == <<<<32768, 0>>, <<0, 0>>, <<0, 0>>, <<0, 896>>>>

\* BleMinerTransform1: the first 64 header bytes compressed once, the message
\* words of the second block, and rounds 1-8 of the second block
BleMinerTransform1 ==
    <<
    <<"set", "STATEA0", SHA256INIT0>>, \* 192
    <<"set", "STATEA1", SHA256INIT1>>, \* 193
    <<"ldrev", "MSGA0">>, \* 199
    <<"ldrev", "MSGA1">>, \* 200
    <<"ldrev", "MSGA2">>, \* 201
    <<"ldrev", "MSGA3">>, \* 202
    <<"k", "KTMP", 0>>, \* 205
    <<"add", "TMP0", "MSGA0", "KTMP">>, \* 206
    <<"mov", "TMP2", "STATEA0">>, \* 207
    <<"su0", "MSGA0", "MSGA0", "MSGA1">>, \* 208
    <<"h", "STATEA0", "STATEA0", "STATEA1", "TMP0">>, \* 209
    <<"h2", "STATEA1", "STATEA1", "TMP2", "TMP0">>, \* 210
    <<"su1", "MSGA0", "MSGA0", "MSGA2", "MSGA3">>, \* 211
    <<"k", "KTMP", 4>>, \* 214
    <<"add", "TMP0", "MSGA1", "KTMP">>, \* 215
    <<"mov", "TMP2", "STATEA0">>, \* 216
    <<"su0", "MSGA1", "MSGA1", "MSGA2">>, \* 217
    <<"h", "STATEA0", "STATEA0", "STATEA1", "TMP0">>, \* 218
    <<"h2", "STATEA1", "STATEA1", "TMP2", "TMP0">>, \* 219
    <<"su1", "MSGA1", "MSGA1", "MSGA3", "MSGA0">>, \* 220
    <<"k", "KTMP", 8>>, \* 223
    <<"add", "TMP0", "MSGA2", "KTMP">>, \* 224
    <<"mov", "TMP2", "STATEA0">>, \* 225
    <<"su0", "MSGA2", "MSGA2", "MSGA3">>, \* 226
    <<"h", "STATEA0", "STATEA0", "STATEA1", "TMP0">>, \* 227
    <<"h2", "STATEA1", "STATEA1", "TMP2", "TMP0">>, \* 228
    <<"su1", "MSGA2", "MSGA2", "MSGA0", "MSGA1">>, \* 229
    <<"k", "KTMP", 12>>, \* 232
    <<"add", "TMP0", "MSGA3", "KTMP">>, \* 233
    <<"mov", "TMP2", "STATEA0">>, \* 234
    <<"su0", "MSGA3", "MSGA3", "MSGA0">>, \* 235
    <<"h", "STATEA0", "STATEA0", "STATEA1", "TMP0">>, \* 236
    <<"h2", "STATEA1", "STATEA1", "TMP2", "TMP0">>, \* 237
    <<"su1", "MSGA3", "MSGA3", "MSGA1", "MSGA2">>, \* 238
    <<"k", "KTMP", 16>>, \* 241
    <<"add", "TMP0", "MSGA0", "KTMP">>, \* 242
    <<"mov", "TMP2", "STATEA0">>, \* 243
    <<"su0", "MSGA0", "MSGA0", "MSGA1">>, \* 244
    <<"h", "STATEA0", "STATEA0", "STATEA1", "TMP0">>, \* 245
    <<"h2", "STATEA1", "STATEA1", "TMP2", "TMP0">>, \* 246
    <<"su1", "MSGA0", "MSGA0", "MSGA2", "MSGA3">>, \* 247
    <<"k", "KTMP", 20>>, \* 250
    <<"add", "TMP0", "MSGA1", "KTMP">>, \* 251
    <<"mov", "TMP2", "STATEA0">>, \* 252
    <<"su0", "MSGA1", "MSGA1", "MSGA2">>, \* 253
    <<"h", "STATEA0", "STATEA0", "STATEA1", "TMP0">>, \* 254
    <<"h2", "STATEA1", "STATEA1", "TMP2", "TMP0">>, \* 255
    <<"su1", "MSGA1", "MSGA1", "MSGA3", "MSGA0">>, \* 256
    <<"k", "KTMP", 24>>, \* 259
    <<"add", "TMP0", "MSGA2", "KTMP">>, \* 260
    <<"mov", "TMP2", "STATEA0">>, \* 261
    <<"su0", "MSGA2", "MSGA2", "MSGA3">>, \* 262
    <<"h", "STATEA0", "STATEA0", "STATEA1", "TMP0">>, \* 263
    <<"h2", "STATEA1", "STATEA1", "TMP2", "TMP0">>, \* 264
    <<"su1", "MSGA2", "MSGA2", "MSGA0", "MSGA1">>, \* 265
    <<"k", "KTMP", 28>>, \* 268
    <<"add", "TMP0", "MSGA3", "KTMP">>, \* 269
    <<"mov", "TMP2", "STATEA0">>, \* 270
    <<"su0", "MSGA3", "MSGA3", "MSGA0">>, \* 271
    <<"h", "STATEA0", "STATEA0", "STATEA1", "TMP0">>, \* 272
    <<"h2", "STATEA1", "STATEA1", "TMP2", "TMP0">>, \* 273
    <<"su1", "MSGA3", "MSGA3", "MSGA1", "MSGA2">>, \* 274
    <<"k", "KTMP", 32>>, \* 277
    <<"add", "TMP0", "MSGA0", "KTMP">>, \* 278
    <<"mov", "TMP2", "STATEA0">>, \* 279
    <<"su0", "MSGA0", "MSGA0", "MSGA1">>, \* 280
    <<"h", "STATEA0", "STATEA0", "STATEA1", "TMP0">>, \* 281
    <<"h2", "STATEA1", "STATEA1", "TMP2", "TMP0">>, \* 282
    <<"su1", "MSGA0", "MSGA0", "MSGA2", "MSGA3">>, \* 283
    <<"k", "KTMP", 36>>, \* 286
    <<"add", "TMP0", "MSGA1", "KTMP">>, \* 287
    <<"mov", "TMP2", "STATEA0">>, \* 288
    <<"su0", "MSGA1", "MSGA1", "MSGA2">>, \* 289
    <<"h", "STATEA0", "STATEA0", "STATEA1", "TMP0">>, \* 290
    <<"h2", "STATEA1", "STATEA1", "TMP2", "TMP0">>, \* 291
    <<"su1", "MSGA1", "MSGA1", "MSGA3", "MSGA0">>, \* 292
    <<"k", "KTMP", 40>>, \* 295
    <<"add", "TMP0", "MSGA2", "KTMP">>, \* 296
    <<"mov", "TMP2", "STATEA0">>, \* 297
    <<"su0", "MSGA2", "MSGA2", "MSGA3">>, \* 298
    <<"h", "STATEA0", "STATEA0", "STATEA1", "TMP0">>, \* 299
    <<"h2", "STATEA1", "STATEA1", "TMP2", "TMP0">>, \* 300
    <<"su1", "MSGA2", "MSGA2", "MSGA0", "MSGA1">>, \* 301
    <<"k", "KTMP", 44>>, \* 304
    <<"add", "TMP0", "MSGA3", "KTMP">>, \* 305
    <<"mov", "TMP2", "STATEA0">>, \* 306
    <<"su0", "MSGA3", "MSGA3", "MSGA0">>, \* 307
    <<"h", "STATEA0", "STATEA0", "STATEA1", "TMP0">>, \* 308
    <<"h2", "STATEA1", "STATEA1", "TMP2", "TMP0">>, \* 309
    <<"su1", "MSGA3", "MSGA3", "MSGA1", "MSGA2">>, \* 310
    <<"k", "KTMP", 48>>, \* 313
    <<"add", "TMP0", "MSGA0", "KTMP">>, \* 314
    <<"mov", "TMP2", "STATEA0">>, \* 315
    <<"h", "STATEA0", "STATEA0", "STATEA1", "TMP0">>, \* 316
    <<"h2", "STATEA1", "STATEA1", "TMP2", "TMP0">>, \* 317
    <<"k", "KTMP", 52>>, \* 320
    <<"add", "TMP0", "MSGA1", "KTMP">>, \* 321
    <<"mov", "TMP2", "STATEA0">>, \* 322
    <<"h", "STATEA0", "STATEA0", "STATEA1", "TMP0">>, \* 323
    <<"h2", "STATEA1", "STATEA1", "TMP2", "TMP0">>, \* 324
    <<"k", "KTMP", 56>>, \* 327
    <<"add", "TMP0", "MSGA2", "KTMP">>, \* 328
    <<"mov", "TMP2", "STATEA0">>, \* 329
    <<"h", "STATEA0", "STATEA0", "STATEA1", "TMP0">>, \* 330
    <<"h2", "STATEA1", "STATEA1", "TMP2", "TMP0">>, \* 331
    <<"k", "KTMP", 60>>, \* 334
    <<"add", "TMP0", "MSGA3", "KTMP">>, \* 335
    <<"mov", "TMP2", "STATEA0">>, \* 336
    <<"h", "STATEA0", "STATEA0", "STATEA1", "TMP0">>, \* 337
    <<"h2", "STATEA1", "STATEA1", "TMP2", "TMP0">>, \* 338
    <<"addc", "STATEA0", "STATEA0", SHA256INIT0>>, \* 341
    <<"addc", "STATEA1", "STATEA1", SHA256INIT1>>, \* 342
    <<"ldrev", "MSGA0">>, \* 346
    <<"ldrev", "MSGA1">>, \* 347
    <<"ld", "MSGA2">>, \* 349
    <<"set", "MSGA3", PADDING1>>, \* 350
    <<"mov", "val[0]", "STATEA0">>, \* 354
    <<"mov", "val[1]", "STATEA1">>, \* 355
    <<"su0", "val[2]", "MSGA0", "MSGA1">>, \* 356
    <<"mov", "val[3]", "MSGA1">>, \* 357
    <<"mov", "val[4]", "MSGA2">>, \* 358
    <<"mov", "val[5]", "MSGA3">>, \* 359
    <<"k", "KTMP", 0>>, \* 361
    <<"add", "TMP0", "MSGA0", "KTMP">>, \* 362
    <<"mov", "TMP2", "STATEA0">>, \* 363
    <<"h", "STATEA0", "STATEA0", "STATEA1", "TMP0">>, \* 365
    <<"h2", "STATEA1", "STATEA1", "TMP2", "TMP0">>, \* 366
    <<"k", "KTMP", 4>>, \* 368
    <<"add", "TMP0", "MSGA1", "KTMP">>, \* 369
    <<"mov", "TMP2", "STATEA0">>, \* 370
    <<"h", "STATEA0", "STATEA0", "STATEA1", "TMP0">>, \* 372
    <<"h2", "STATEA1", "STATEA1", "TMP2", "TMP0">>, \* 373
    <<"mov", "val[12]", "STATEA0">>, \* 376
    <<"mov", "val[13]", "STATEA1">> \* 377
    >>

\* BleMinerInitialTransform: the cache of the 1-, 2- and 4-lane hashers
BleMinerInitialTransform ==
    <<
    <<"set", "STATEA0", SHA256INIT0>>, \* 391
    <<"set", "STATEA1", SHA256INIT1>>, \* 392
    <<"ldrev", "MSGA0">>, \* 398
    <<"ldrev", "MSGA1">>, \* 399
    <<"ldrev", "MSGA2">>, \* 400
    <<"ldrev", "MSGA3">>, \* 401
    <<"k", "KTMP", 0>>, \* 404
    <<"add", "TMP0", "MSGA0", "KTMP">>, \* 405
    <<"mov", "TMP2", "STATEA0">>, \* 406
    <<"su0", "MSGA0", "MSGA0", "MSGA1">>, \* 407
    <<"h", "STATEA0", "STATEA0", "STATEA1", "TMP0">>, \* 408
    <<"h2", "STATEA1", "STATEA1", "TMP2", "TMP0">>, \* 409
    <<"su1", "MSGA0", "MSGA0", "MSGA2", "MSGA3">>, \* 410
    <<"k", "KTMP", 4>>, \* 413
    <<"add", "TMP0", "MSGA1", "KTMP">>, \* 414
    <<"mov", "TMP2", "STATEA0">>, \* 415
    <<"su0", "MSGA1", "MSGA1", "MSGA2">>, \* 416
    <<"h", "STATEA0", "STATEA0", "STATEA1", "TMP0">>, \* 417
    <<"h2", "STATEA1", "STATEA1", "TMP2", "TMP0">>, \* 418
    <<"su1", "MSGA1", "MSGA1", "MSGA3", "MSGA0">>, \* 419
    <<"k", "KTMP", 8>>, \* 422
    <<"add", "TMP0", "MSGA2", "KTMP">>, \* 423
    <<"mov", "TMP2", "STATEA0">>, \* 424
    <<"su0", "MSGA2", "MSGA2", "MSGA3">>, \* 425
    <<"h", "STATEA0", "STATEA0", "STATEA1", "TMP0">>, \* 426
    <<"h2", "STATEA1", "STATEA1", "TMP2", "TMP0">>, \* 427
    <<"su1", "MSGA2", "MSGA2", "MSGA0", "MSGA1">>, \* 428
    <<"k", "KTMP", 12>>, \* 431
    <<"add", "TMP0", "MSGA3", "KTMP">>, \* 432
    <<"mov", "TMP2", "STATEA0">>, \* 433
    <<"su0", "MSGA3", "MSGA3", "MSGA0">>, \* 434
    <<"h", "STATEA0", "STATEA0", "STATEA1", "TMP0">>, \* 435
    <<"h2", "STATEA1", "STATEA1", "TMP2", "TMP0">>, \* 436
    <<"su1", "MSGA3", "MSGA3", "MSGA1", "MSGA2">>, \* 437
    <<"k", "KTMP", 16>>, \* 440
    <<"add", "TMP0", "MSGA0", "KTMP">>, \* 441
    <<"mov", "TMP2", "STATEA0">>, \* 442
    <<"su0", "MSGA0", "MSGA0", "MSGA1">>, \* 443
    <<"h", "STATEA0", "STATEA0", "STATEA1", "TMP0">>, \* 444
    <<"h2", "STATEA1", "STATEA1", "TMP2", "TMP0">>, \* 445
    <<"su1", "MSGA0", "MSGA0", "MSGA2", "MSGA3">>, \* 446
    <<"k", "KTMP", 20>>, \* 449
    <<"add", "TMP0", "MSGA1", "KTMP">>, \* 450
    <<"mov", "TMP2", "STATEA0">>, \* 451
    <<"su0", "MSGA1", "MSGA1", "MSGA2">>, \* 452
    <<"h", "STATEA0", "STATEA0", "STATEA1", "TMP0">>, \* 453
    <<"h2", "STATEA1", "STATEA1", "TMP2", "TMP0">>, \* 454
    <<"su1", "MSGA1", "MSGA1", "MSGA3", "MSGA0">>, \* 455
    <<"k", "KTMP", 24>>, \* 458
    <<"add", "TMP0", "MSGA2", "KTMP">>, \* 459
    <<"mov", "TMP2", "STATEA0">>, \* 460
    <<"su0", "MSGA2", "MSGA2", "MSGA3">>, \* 461
    <<"h", "STATEA0", "STATEA0", "STATEA1", "TMP0">>, \* 462
    <<"h2", "STATEA1", "STATEA1", "TMP2", "TMP0">>, \* 463
    <<"su1", "MSGA2", "MSGA2", "MSGA0", "MSGA1">>, \* 464
    <<"k", "KTMP", 28>>, \* 467
    <<"add", "TMP0", "MSGA3", "KTMP">>, \* 468
    <<"mov", "TMP2", "STATEA0">>, \* 469
    <<"su0", "MSGA3", "MSGA3", "MSGA0">>, \* 470
    <<"h", "STATEA0", "STATEA0", "STATEA1", "TMP0">>, \* 471
    <<"h2", "STATEA1", "STATEA1", "TMP2", "TMP0">>, \* 472
    <<"su1", "MSGA3", "MSGA3", "MSGA1", "MSGA2">>, \* 473
    <<"k", "KTMP", 32>>, \* 476
    <<"add", "TMP0", "MSGA0", "KTMP">>, \* 477
    <<"mov", "TMP2", "STATEA0">>, \* 478
    <<"su0", "MSGA0", "MSGA0", "MSGA1">>, \* 479
    <<"h", "STATEA0", "STATEA0", "STATEA1", "TMP0">>, \* 480
    <<"h2", "STATEA1", "STATEA1", "TMP2", "TMP0">>, \* 481
    <<"su1", "MSGA0", "MSGA0", "MSGA2", "MSGA3">>, \* 482
    <<"k", "KTMP", 36>>, \* 485
    <<"add", "TMP0", "MSGA1", "KTMP">>, \* 486
    <<"mov", "TMP2", "STATEA0">>, \* 487
    <<"su0", "MSGA1", "MSGA1", "MSGA2">>, \* 488
    <<"h", "STATEA0", "STATEA0", "STATEA1", "TMP0">>, \* 489
    <<"h2", "STATEA1", "STATEA1", "TMP2", "TMP0">>, \* 490
    <<"su1", "MSGA1", "MSGA1", "MSGA3", "MSGA0">>, \* 491
    <<"k", "KTMP", 40>>, \* 494
    <<"add", "TMP0", "MSGA2", "KTMP">>, \* 495
    <<"mov", "TMP2", "STATEA0">>, \* 496
    <<"su0", "MSGA2", "MSGA2", "MSGA3">>, \* 497
    <<"h", "STATEA0", "STATEA0", "STATEA1", "TMP0">>, \* 498
    <<"h2", "STATEA1", "STATEA1", "TMP2", "TMP0">>, \* 499
    <<"su1", "MSGA2", "MSGA2", "MSGA0", "MSGA1">>, \* 500
    <<"k", "KTMP", 44>>, \* 503
    <<"add", "TMP0", "MSGA3", "KTMP">>, \* 504
    <<"mov", "TMP2", "STATEA0">>, \* 505
    <<"su0", "MSGA3", "MSGA3", "MSGA0">>, \* 506
    <<"h", "STATEA0", "STATEA0", "STATEA1", "TMP0">>, \* 507
    <<"h2", "STATEA1", "STATEA1", "TMP2", "TMP0">>, \* 508
    <<"su1", "MSGA3", "MSGA3", "MSGA1", "MSGA2">>, \* 509
    <<"k", "KTMP", 48>>, \* 512
    <<"add", "TMP0", "MSGA0", "KTMP">>, \* 513
    <<"mov", "TMP2", "STATEA0">>, \* 514
    <<"h", "STATEA0", "STATEA0", "STATEA1", "TMP0">>, \* 515
    <<"h2", "STATEA1", "STATEA1", "TMP2", "TMP0">>, \* 516
    <<"k", "KTMP", 52>>, \* 519
    <<"add", "TMP0", "MSGA1", "KTMP">>, \* 520
    <<"mov", "TMP2", "STATEA0">>, \* 521
    <<"h", "STATEA0", "STATEA0", "STATEA1", "TMP0">>, \* 522
    <<"h2", "STATEA1", "STATEA1", "TMP2", "TMP0">>, \* 523
    <<"k", "KTMP", 56>>, \* 526
    <<"add", "TMP0", "MSGA2", "KTMP">>, \* 527
    <<"mov", "TMP2", "STATEA0">>, \* 528
    <<"h", "STATEA0", "STATEA0", "STATEA1", "TMP0">>, \* 529
    <<"h2", "STATEA1", "STATEA1", "TMP2", "TMP0">>, \* 530
    <<"k", "KTMP", 60>>, \* 533
    <<"add", "TMP0", "MSGA3", "KTMP">>, \* 534
    <<"mov", "TMP2", "STATEA0">>, \* 535
    <<"h", "STATEA0", "STATEA0", "STATEA1", "TMP0">>, \* 536
    <<"h2", "STATEA1", "STATEA1", "TMP2", "TMP0">>, \* 537
    <<"addc", "STATEA0", "STATEA0", SHA256INIT0>>, \* 540
    <<"addc", "STATEA1", "STATEA1", SHA256INIT1>>, \* 541
    <<"ldrev", "MSGA0">>, \* 545
    <<"ldrev", "MSGA1">>, \* 546
    <<"ld", "MSGA2">>, \* 549
    <<"set", "MSGA3", PADDING1>>, \* 550
    <<"set", "SHA256INIT0", SHA256INIT0>>, \* 552
    <<"set", "SHA256INIT1", SHA256INIT1>>, \* 553
    <<"set", "PADDING2A", PADDING2A>>, \* 555
    <<"set", "PADDING2B", PADDING2B>>, \* 556
    <<"mov", "val[0]", "STATEA0">>, \* 558
    <<"mov", "val[1]", "STATEA1">>, \* 559
    <<"mov", "val[2]", "MSGA0">>, \* 560
    <<"mov", "val[3]", "MSGA1">>, \* 561
    <<"mov", "val[4]", "MSGA2">>, \* 562
    <<"mov", "val[5]", "MSGA3">>, \* 563
    <<"mov", "val[6]", "SHA256INIT0">>, \* 564
    <<"mov", "val[7]", "SHA256INIT1">>, \* 565
    <<"mov", "val[8]", "PADDING2A">>, \* 566
    <<"mov", "val[9]", "PADDING2B">> \* 567
    >>

\* BleMiner: the 1-lane hasher
BleMiner ==
    <<
    <<"mov", "STATEA0", "val[0]">>, \* 583
    <<"mov", "STATEA1", "val[1]">>, \* 584
    <<"mov", "MSGA0", "val[2]">>, \* 590
    <<"mov", "MSGA1", "val[3]">>, \* 591
    <<"rev", "MSGA2", "val[4]">>, \* 595
    <<"mov", "MSGA3", "val[5]">>, \* 596
    <<"k", "KTMP", 0>>, \* 609
    <<"add", "TMP0", "MSGA0", "KTMP">>, \* 610
    <<"mov", "TMP2", "STATEA0">>, \* 611
    <<"su0", "MSGA0", "MSGA0", "MSGA1">>, \* 612
    <<"h", "STATEA0", "STATEA0", "STATEA1", "TMP0">>, \* 613
    <<"h2", "STATEA1", "STATEA1", "TMP2", "TMP0">>, \* 614
    <<"su1", "MSGA0", "MSGA0", "MSGA2", "MSGA3">>, \* 615
    <<"k", "KTMP", 4>>, \* 625
    <<"add", "TMP0", "MSGA1", "KTMP">>, \* 626
    <<"mov", "TMP2", "STATEA0">>, \* 627
    <<"su0", "MSGA1", "MSGA1", "MSGA2">>, \* 628
    <<"h", "STATEA0", "STATEA0", "STATEA1", "TMP0">>, \* 629
    <<"h2", "STATEA1", "STATEA1", "TMP2", "TMP0">>, \* 630
    <<"su1", "MSGA1", "MSGA1", "MSGA3", "MSGA0">>, \* 631
    <<"k", "KTMP", 8>>, \* 641
    <<"add", "TMP0", "MSGA2", "KTMP">>, \* 642
    <<"mov", "TMP2", "STATEA0">>, \* 643
    <<"su0", "MSGA2", "MSGA2", "MSGA3">>, \* 644
    <<"h", "STATEA0", "STATEA0", "STATEA1", "TMP0">>, \* 645
    <<"h2", "STATEA1", "STATEA1", "TMP2", "TMP0">>, \* 646
    <<"su1", "MSGA2", "MSGA2", "MSGA0", "MSGA1">>, \* 647
    <<"k", "KTMP", 12>>, \* 657
    <<"add", "TMP0", "MSGA3", "KTMP">>, \* 659
    <<"mov", "TMP2", "STATEA0">>, \* 660
    <<"su0", "MSGA3", "MSGA3", "MSGA0">>, \* 661
    <<"h", "STATEA0", "STATEA0", "STATEA1", "TMP0">>, \* 662
    <<"h2", "STATEA1", "STATEA1", "TMP2", "TMP0">>, \* 663
    <<"su1", "MSGA3", "MSGA3", "MSGA1", "MSGA2">>, \* 664
    <<"k", "KTMP", 16>>, \* 674
    <<"add", "TMP0", "MSGA0", "KTMP">>, \* 675
    <<"mov", "TMP2", "STATEA0">>, \* 676
    <<"su0", "MSGA0", "MSGA0", "MSGA1">>, \* 677
    <<"h", "STATEA0", "STATEA0", "STATEA1", "TMP0">>, \* 678
    <<"h2", "STATEA1", "STATEA1", "TMP2", "TMP0">>, \* 679
    <<"su1", "MSGA0", "MSGA0", "MSGA2", "MSGA3">>, \* 680
    <<"k", "KTMP", 20>>, \* 690
    <<"add", "TMP0", "MSGA1", "KTMP">>, \* 691
    <<"mov", "TMP2", "STATEA0">>, \* 692
    <<"su0", "MSGA1", "MSGA1", "MSGA2">>, \* 693
    <<"h", "STATEA0", "STATEA0", "STATEA1", "TMP0">>, \* 694
    <<"h2", "STATEA1", "STATEA1", "TMP2", "TMP0">>, \* 695
    <<"su1", "MSGA1", "MSGA1", "MSGA3", "MSGA0">>, \* 696
    <<"k", "KTMP", 24>>, \* 706
    <<"add", "TMP0", "MSGA2", "KTMP">>, \* 707
    <<"mov", "TMP2", "STATEA0">>, \* 708
    <<"su0", "MSGA2", "MSGA2", "MSGA3">>, \* 709
    <<"h", "STATEA0", "STATEA0", "STATEA1", "TMP0">>, \* 710
    <<"h2", "STATEA1", "STATEA1", "TMP2", "TMP0">>, \* 711
    <<"su1", "MSGA2", "MSGA2", "MSGA0", "MSGA1">>, \* 712
    <<"k", "KTMP", 28>>, \* 722
    <<"add", "TMP0", "MSGA3", "KTMP">>, \* 723
    <<"mov", "TMP2", "STATEA0">>, \* 724
    <<"su0", "MSGA3", "MSGA3", "MSGA0">>, \* 725
    <<"h", "STATEA0", "STATEA0", "STATEA1", "TMP0">>, \* 726
    <<"h2", "STATEA1", "STATEA1", "TMP2", "TMP0">>, \* 727
    <<"su1", "MSGA3", "MSGA3", "MSGA1", "MSGA2">>, \* 728
    <<"k", "KTMP", 32>>, \* 738
    <<"add", "TMP0", "MSGA0", "KTMP">>, \* 739
    <<"mov", "TMP2", "STATEA0">>, \* 740
    <<"su0", "MSGA0", "MSGA0", "MSGA1">>, \* 741
    <<"h", "STATEA0", "STATEA0", "STATEA1", "TMP0">>, \* 742
    <<"h2", "STATEA1", "STATEA1", "TMP2", "TMP0">>, \* 743
    <<"su1", "MSGA0", "MSGA0", "MSGA2", "MSGA3">>, \* 744
    <<"k", "KTMP", 36>>, \* 754
    <<"add", "TMP0", "MSGA1", "KTMP">>, \* 755
    <<"mov", "TMP2", "STATEA0">>, \* 756
    <<"su0", "MSGA1", "MSGA1", "MSGA2">>, \* 757
    <<"h", "STATEA0", "STATEA0", "STATEA1", "TMP0">>, \* 758
    <<"h2", "STATEA1", "STATEA1", "TMP2", "TMP0">>, \* 759
    <<"su1", "MSGA1", "MSGA1", "MSGA3", "MSGA0">>, \* 760
    <<"k", "KTMP", 40>>, \* 770
    <<"add", "TMP0", "MSGA2", "KTMP">>, \* 771
    <<"mov", "TMP2", "STATEA0">>, \* 772
    <<"su0", "MSGA2", "MSGA2", "MSGA3">>, \* 773
    <<"h", "STATEA0", "STATEA0", "STATEA1", "TMP0">>, \* 774
    <<"h2", "STATEA1", "STATEA1", "TMP2", "TMP0">>, \* 775
    <<"su1", "MSGA2", "MSGA2", "MSGA0", "MSGA1">>, \* 776
    <<"k", "KTMP", 44>>, \* 786
    <<"add", "TMP0", "MSGA3", "KTMP">>, \* 787
    <<"mov", "TMP2", "STATEA0">>, \* 788
    <<"su0", "MSGA3", "MSGA3", "MSGA0">>, \* 789
    <<"h", "STATEA0", "STATEA0", "STATEA1", "TMP0">>, \* 790
    <<"h2", "STATEA1", "STATEA1", "TMP2", "TMP0">>, \* 791
    <<"su1", "MSGA3", "MSGA3", "MSGA1", "MSGA2">>, \* 792
    <<"k", "KTMP", 48>>, \* 802
    <<"add", "TMP0", "MSGA0", "KTMP">>, \* 803
    <<"mov", "TMP2", "STATEA0">>, \* 804
    <<"h", "STATEA0", "STATEA0", "STATEA1", "TMP0">>, \* 805
    <<"h2", "STATEA1", "STATEA1", "TMP2", "TMP0">>, \* 806
    <<"k", "KTMP", 52>>, \* 814
    <<"add", "TMP0", "MSGA1", "KTMP">>, \* 815
    <<"mov", "TMP2", "STATEA0">>, \* 816
    <<"h", "STATEA0", "STATEA0", "STATEA1", "TMP0">>, \* 817
    <<"h2", "STATEA1", "STATEA1", "TMP2", "TMP0">>, \* 818
    <<"k", "KTMP", 56>>, \* 826
    <<"add", "TMP0", "MSGA2", "KTMP">>, \* 827
    <<"mov", "TMP2", "STATEA0">>, \* 828
    <<"h", "STATEA0", "STATEA0", "STATEA1", "TMP0">>, \* 829
    <<"h2", "STATEA1", "STATEA1", "TMP2", "TMP0">>, \* 830
    <<"k", "KTMP", 60>>, \* 838
    <<"add", "TMP0", "MSGA3", "KTMP">>, \* 839
    <<"mov", "TMP2", "STATEA0">>, \* 840
    <<"h", "STATEA0", "STATEA0", "STATEA1", "TMP0">>, \* 841
    <<"h2", "STATEA1", "STATEA1", "TMP2", "TMP0">>, \* 842
    <<"add", "MSGA0", "STATEA0", "val[0]">>, \* 853
    <<"add", "MSGA1", "STATEA1", "val[1]">>, \* 854
    <<"set", "MSGA2", PADDING2A>>, \* 855
    <<"set", "MSGA3", PADDING2B>>, \* 856
    <<"set", "STATEA0", SHA256INIT0>>, \* 875
    <<"set", "STATEA1", SHA256INIT1>>, \* 876
    <<"k", "KTMP", 0>>, \* 881
    <<"add", "TMP0", "MSGA0", "KTMP">>, \* 882
    <<"mov", "TMP2", "STATEA0">>, \* 883
    <<"su0", "MSGA0", "MSGA0", "MSGA1">>, \* 884
    <<"h", "STATEA0", "STATEA0", "STATEA1", "TMP0">>, \* 885
    <<"h2", "STATEA1", "STATEA1", "TMP2", "TMP0">>, \* 886
    <<"su1", "MSGA0", "MSGA0", "MSGA2", "MSGA3">>, \* 888
    <<"k", "KTMP", 4>>, \* 898
    <<"add", "TMP0", "MSGA1", "KTMP">>, \* 899
    <<"mov", "TMP2", "STATEA0">>, \* 900
    <<"su0", "MSGA1", "MSGA1", "MSGA2">>, \* 901
    <<"h", "STATEA0", "STATEA0", "STATEA1", "TMP0">>, \* 902
    <<"h2", "STATEA1", "STATEA1", "TMP2", "TMP0">>, \* 903
    <<"su1", "MSGA1", "MSGA1", "MSGA3", "MSGA0">>, \* 904
    <<"k", "KTMP", 8>>, \* 914
    <<"add", "TMP0", "MSGA2", "KTMP">>, \* 916
    <<"mov", "TMP2", "STATEA0">>, \* 917
    <<"su0", "MSGA2", "MSGA2", "MSGA3">>, \* 919
    <<"h", "STATEA0", "STATEA0", "STATEA1", "TMP0">>, \* 920
    <<"h2", "STATEA1", "STATEA1", "TMP2", "TMP0">>, \* 921
    <<"su1", "MSGA2", "MSGA2", "MSGA0", "MSGA1">>, \* 922
    <<"k", "KTMP", 12>>, \* 932
    <<"add", "TMP0", "MSGA3", "KTMP">>, \* 934
    <<"mov", "TMP2", "STATEA0">>, \* 935
    <<"su0", "MSGA3", "MSGA3", "MSGA0">>, \* 936
    <<"h", "STATEA0", "STATEA0", "STATEA1", "TMP0">>, \* 937
    <<"h2", "STATEA1", "STATEA1", "TMP2", "TMP0">>, \* 938
    <<"su1", "MSGA3", "MSGA3", "MSGA1", "MSGA2">>, \* 939
    <<"k", "KTMP", 16>>, \* 949
    <<"add", "TMP0", "MSGA0", "KTMP">>, \* 950
    <<"mov", "TMP2", "STATEA0">>, \* 951
    <<"su0", "MSGA0", "MSGA0", "MSGA1">>, \* 952
    <<"h", "STATEA0", "STATEA0", "STATEA1", "TMP0">>, \* 953
    <<"h2", "STATEA1", "STATEA1", "TMP2", "TMP0">>, \* 954
    <<"su1", "MSGA0", "MSGA0", "MSGA2", "MSGA3">>, \* 955
    <<"k", "KTMP", 20>>, \* 965
    <<"add", "TMP0", "MSGA1", "KTMP">>, \* 966
    <<"mov", "TMP2", "STATEA0">>, \* 967
    <<"su0", "MSGA1", "MSGA1", "MSGA2">>, \* 968
    <<"h", "STATEA0", "STATEA0", "STATEA1", "TMP0">>, \* 969
    <<"h2", "STATEA1", "STATEA1", "TMP2", "TMP0">>, \* 970
    <<"su1", "MSGA1", "MSGA1", "MSGA3", "MSGA0">>, \* 971
    <<"k", "KTMP", 24>>, \* 981
    <<"add", "TMP0", "MSGA2", "KTMP">>, \* 982
    <<"mov", "TMP2", "STATEA0">>, \* 983
    <<"su0", "MSGA2", "MSGA2", "MSGA3">>, \* 984
    <<"h", "STATEA0", "STATEA0", "STATEA1", "TMP0">>, \* 985
    <<"h2", "STATEA1", "STATEA1", "TMP2", "TMP0">>, \* 986
    <<"su1", "MSGA2", "MSGA2", "MSGA0", "MSGA1">>, \* 987
    <<"k", "KTMP", 28>>, \* 997
    <<"add", "TMP0", "MSGA3", "KTMP">>, \* 998
    <<"mov", "TMP2", "STATEA0">>, \* 999
    <<"su0", "MSGA3", "MSGA3", "MSGA0">>, \* 1000
    <<"h", "STATEA0", "STATEA0", "STATEA1", "TMP0">>, \* 1001
    <<"h2", "STATEA1", "STATEA1", "TMP2", "TMP0">>, \* 1002
    <<"su1", "MSGA3", "MSGA3", "MSGA1", "MSGA2">>, \* 1003
    <<"k", "KTMP", 32>>, \* 1013
    <<"add", "TMP0", "MSGA0", "KTMP">>, \* 1014
    <<"mov", "TMP2", "STATEA0">>, \* 1015
    <<"su0", "MSGA0", "MSGA0", "MSGA1">>, \* 1016
    <<"h", "STATEA0", "STATEA0", "STATEA1", "TMP0">>, \* 1017
    <<"h2", "STATEA1", "STATEA1", "TMP2", "TMP0">>, \* 1018
    <<"su1", "MSGA0", "MSGA0", "MSGA2", "MSGA3">>, \* 1019
    <<"k", "KTMP", 36>>, \* 1029
    <<"add", "TMP0", "MSGA1", "KTMP">>, \* 1030
    <<"mov", "TMP2", "STATEA0">>, \* 1031
    <<"su0", "MSGA1", "MSGA1", "MSGA2">>, \* 1032
    <<"h", "STATEA0", "STATEA0", "STATEA1", "TMP0">>, \* 1033
    <<"h2", "STATEA1", "STATEA1", "TMP2", "TMP0">>, \* 1034
    <<"su1", "MSGA1", "MSGA1", "MSGA3", "MSGA0">>, \* 1035
    <<"k", "KTMP", 40>>, \* 1045
    <<"add", "TMP0", "MSGA2", "KTMP">>, \* 1046
    <<"mov", "TMP2", "STATEA0">>, \* 1047
    <<"su0", "MSGA2", "MSGA2", "MSGA3">>, \* 1048
    <<"h", "STATEA0", "STATEA0", "STATEA1", "TMP0">>, \* 1049
    <<"h2", "STATEA1", "STATEA1", "TMP2", "TMP0">>, \* 1050
    <<"su1", "MSGA2", "MSGA2", "MSGA0", "MSGA1">>, \* 1051
    <<"k", "KTMP", 44>>, \* 1061
    <<"add", "TMP0", "MSGA3", "KTMP">>, \* 1062
    <<"mov", "TMP2", "STATEA0">>, \* 1063
    <<"su0", "MSGA3", "MSGA3", "MSGA0">>, \* 1064
    <<"h", "STATEA0", "STATEA0", "STATEA1", "TMP0">>, \* 1065
    <<"h2", "STATEA1", "STATEA1", "TMP2", "TMP0">>, \* 1066
    <<"su1", "MSGA3", "MSGA3", "MSGA1", "MSGA2">>, \* 1067
    <<"k", "KTMP", 48>>, \* 1077
    <<"add", "TMP0", "MSGA0", "KTMP">>, \* 1078
    <<"mov", "TMP2", "STATEA0">>, \* 1079
    <<"h", "STATEA0", "STATEA0", "STATEA1", "TMP0">>, \* 1080
    <<"h2", "STATEA1", "STATEA1", "TMP2", "TMP0">>, \* 1081
    <<"k", "KTMP", 52>>, \* 1089
    <<"add", "TMP0", "MSGA1", "KTMP">>, \* 1090
    <<"mov", "TMP2", "STATEA0">>, \* 1091
    <<"h", "STATEA0", "STATEA0", "STATEA1", "TMP0">>, \* 1092
    <<"h2", "STATEA1", "STATEA1", "TMP2", "TMP0">>, \* 1093
    <<"k", "KTMP", 56>>, \* 1101
    <<"add", "TMP0", "MSGA2", "KTMP">>, \* 1102
    <<"mov", "TMP2", "STATEA0">>, \* 1103
    <<"h", "STATEA0", "STATEA0", "STATEA1", "TMP0">>, \* 1104
    <<"h2", "STATEA1", "STATEA1", "TMP2", "TMP0">>, \* 1105
    <<"k", "KTMP", 60>>, \* 1113
    <<"add", "TMP0", "MSGA3", "KTMP">>, \* 1114
    <<"mov", "TMP2", "STATEA0">>, \* 1115
    <<"h", "STATEA0", "STATEA0", "STATEA1", "TMP0">>, \* 1116
    <<"h2", "STATEA1", "STATEA1", "TMP2", "TMP0">>, \* 1117
    <<"addc", "STATEA0", "STATEA0", SHA256INIT0>>, \* 1125
    <<"addc", "STATEA1", "STATEA1", SHA256INIT1>> \* 1126
    >>

\* BleMiner2Way: the 2-lane hasher
BleMiner2Way ==
    <<
    <<"set", "SHA256INIT0", SHA256INIT0>>, \* 1153
    <<"set", "SHA256INIT1", SHA256INIT1>>, \* 1154
    <<"set", "PADDING2A", PADDING2A>>, \* 1156
    <<"set", "PADDING2B", PADDING2B>>, \* 1157
    <<"mov", "STATEA0", "val[0]">>, \* 1162
    <<"mov", "STATEA1", "val[1]">>, \* 1163
    <<"mov", "STATEB0", "val[0]">>, \* 1164
    <<"mov", "STATEB1", "val[1]">>, \* 1165
    <<"mov", "MSGA0", "val[2]">>, \* 1169
    <<"mov", "MSGA1", "val[3]">>, \* 1170
    <<"rev", "MSGA2", "val[4]">>, \* 1173
    <<"mov", "MSGA3", "val[5]">>, \* 1174
    <<"inc", "val[4]", 3>>, \* 1177
    <<"mov", "MSGB0", "val[2]">>, \* 1179
    <<"mov", "MSGB1", "val[3]">>, \* 1180
    <<"rev", "MSGB2", "val[4]">>, \* 1182
    <<"mov", "MSGB3", "val[5]">>, \* 1183
    <<"k", "KTMP", 0>>, \* 1192
    <<"add", "TMP0", "MSGA0", "KTMP">>, \* 1193
    <<"mov", "TMP2", "STATEA0">>, \* 1194
    <<"su0", "MSGA0", "MSGA0", "MSGA1">>, \* 1195
    <<"h", "STATEA0", "STATEA0", "STATEA1", "TMP0">>, \* 1196
    <<"h2", "STATEA1", "STATEA1", "TMP2", "TMP0">>, \* 1197
    <<"su1", "MSGA0", "MSGA0", "MSGA2", "MSGA3">>, \* 1198
    <<"add", "TMP0", "MSGB0", "KTMP">>, \* 1200
    <<"mov", "TMP2", "STATEB0">>, \* 1201
    <<"su0", "MSGB0", "MSGB0", "MSGB1">>, \* 1202
    <<"h", "STATEB0", "STATEB0", "STATEB1", "TMP0">>, \* 1203
    <<"h2", "STATEB1", "STATEB1", "TMP2", "TMP0">>, \* 1204
    <<"su1", "MSGB0", "MSGB0", "MSGB2", "MSGB3">>, \* 1205
    <<"k", "KTMP", 4>>, \* 1208
    <<"add", "TMP0", "MSGA1", "KTMP">>, \* 1209
    <<"mov", "TMP2", "STATEA0">>, \* 1210
    <<"su0", "MSGA1", "MSGA1", "MSGA2">>, \* 1211
    <<"h", "STATEA0", "STATEA0", "STATEA1", "TMP0">>, \* 1212
    <<"h2", "STATEA1", "STATEA1", "TMP2", "TMP0">>, \* 1213
    <<"su1", "MSGA1", "MSGA1", "MSGA3", "MSGA0">>, \* 1214
    <<"add", "TMP0", "MSGB1", "KTMP">>, \* 1216
    <<"mov", "TMP2", "STATEB0">>, \* 1217
    <<"su0", "MSGB1", "MSGB1", "MSGB2">>, \* 1218
    <<"h", "STATEB0", "STATEB0", "STATEB1", "TMP0">>, \* 1219
    <<"h2", "STATEB1", "STATEB1", "TMP2", "TMP0">>, \* 1220
    <<"su1", "MSGB1", "MSGB1", "MSGB3", "MSGB0">>, \* 1221
    <<"k", "KTMP", 8>>, \* 1224
    <<"add", "TMP0", "MSGA2", "KTMP">>, \* 1225
    <<"mov", "TMP2", "STATEA0">>, \* 1226
    <<"su0", "MSGA2", "MSGA2", "MSGA3">>, \* 1227
    <<"h", "STATEA0", "STATEA0", "STATEA1", "TMP0">>, \* 1228
    <<"h2", "STATEA1", "STATEA1", "TMP2", "TMP0">>, \* 1229
    <<"su1", "MSGA2", "MSGA2", "MSGA0", "MSGA1">>, \* 1230
    <<"add", "TMP0", "MSGB2", "KTMP">>, \* 1232
    <<"mov", "TMP2", "STATEB0">>, \* 1233
    <<"su0", "MSGB2", "MSGB2", "MSGB3">>, \* 1234
    <<"h", "STATEB0", "STATEB0", "STATEB1", "TMP0">>, \* 1235
    <<"h2", "STATEB1", "STATEB1", "TMP2", "TMP0">>, \* 1236
    <<"su1", "MSGB2", "MSGB2", "MSGB0", "MSGB1">>, \* 1237
    <<"k", "KTMP", 12>>, \* 1240
    <<"add", "TMP0", "MSGA3", "KTMP">>, \* 1242
    <<"mov", "TMP2", "STATEA0">>, \* 1243
    <<"su0", "MSGA3", "MSGA3", "MSGA0">>, \* 1244
    <<"h", "STATEA0", "STATEA0", "STATEA1", "TMP0">>, \* 1245
    <<"h2", "STATEA1", "STATEA1", "TMP2", "TMP0">>, \* 1246
    <<"su1", "MSGA3", "MSGA3", "MSGA1", "MSGA2">>, \* 1247
    <<"add", "TMP0", "MSGB3", "KTMP">>, \* 1249
    <<"mov", "TMP2", "STATEB0">>, \* 1250
    <<"su0", "MSGB3", "MSGB3", "MSGB0">>, \* 1251
    <<"h", "STATEB0", "STATEB0", "STATEB1", "TMP0">>, \* 1252
    <<"h2", "STATEB1", "STATEB1", "TMP2", "TMP0">>, \* 1253
    <<"su1", "MSGB3", "MSGB3", "MSGB1", "MSGB2">>, \* 1254
    <<"k", "KTMP", 16>>, \* 1257
    <<"add", "TMP0", "MSGA0", "KTMP">>, \* 1258
    <<"mov", "TMP2", "STATEA0">>, \* 1259
    <<"su0", "MSGA0", "MSGA0", "MSGA1">>, \* 1260
    <<"h", "STATEA0", "STATEA0", "STATEA1", "TMP0">>, \* 1261
    <<"h2", "STATEA1", "STATEA1", "TMP2", "TMP0">>, \* 1262
    <<"su1", "MSGA0", "MSGA0", "MSGA2", "MSGA3">>, \* 1263
    <<"add", "TMP0", "MSGB0", "KTMP">>, \* 1265
    <<"mov", "TMP2", "STATEB0">>, \* 1266
    <<"su0", "MSGB0", "MSGB0", "MSGB1">>, \* 1267
    <<"h", "STATEB0", "STATEB0", "STATEB1", "TMP0">>, \* 1268
    <<"h2", "STATEB1", "STATEB1", "TMP2", "TMP0">>, \* 1269
    <<"su1", "MSGB0", "MSGB0", "MSGB2", "MSGB3">>, \* 1270
    <<"k", "KTMP", 20>>, \* 1273
    <<"add", "TMP0", "MSGA1", "KTMP">>, \* 1274
    <<"mov", "TMP2", "STATEA0">>, \* 1275
    <<"su0", "MSGA1", "MSGA1", "MSGA2">>, \* 1276
    <<"h", "STATEA0", "STATEA0", "STATEA1", "TMP0">>, \* 1277
    <<"h2", "STATEA1", "STATEA1", "TMP2", "TMP0">>, \* 1278
    <<"su1", "MSGA1", "MSGA1", "MSGA3", "MSGA0">>, \* 1279
    <<"add", "TMP0", "MSGB1", "KTMP">>, \* 1281
    <<"mov", "TMP2", "STATEB0">>, \* 1282
    <<"su0", "MSGB1", "MSGB1", "MSGB2">>, \* 1283
    <<"h", "STATEB0", "STATEB0", "STATEB1", "TMP0">>, \* 1284
    <<"h2", "STATEB1", "STATEB1", "TMP2", "TMP0">>, \* 1285
    <<"su1", "MSGB1", "MSGB1", "MSGB3", "MSGB0">>, \* 1286
    <<"k", "KTMP", 24>>, \* 1289
    <<"add", "TMP0", "MSGA2", "KTMP">>, \* 1290
    <<"mov", "TMP2", "STATEA0">>, \* 1291
    <<"su0", "MSGA2", "MSGA2", "MSGA3">>, \* 1292
    <<"h", "STATEA0", "STATEA0", "STATEA1", "TMP0">>, \* 1293
    <<"h2", "STATEA1", "STATEA1", "TMP2", "TMP0">>, \* 1294
    <<"su1", "MSGA2", "MSGA2", "MSGA0", "MSGA1">>, \* 1295
    <<"add", "TMP0", "MSGB2", "KTMP">>, \* 1297
    <<"mov", "TMP2", "STATEB0">>, \* 1298
    <<"su0", "MSGB2", "MSGB2", "MSGB3">>, \* 1299
    <<"h", "STATEB0", "STATEB0", "STATEB1", "TMP0">>, \* 1300
    <<"h2", "STATEB1", "STATEB1", "TMP2", "TMP0">>, \* 1301
    <<"su1", "MSGB2", "MSGB2", "MSGB0", "MSGB1">>, \* 1302
    <<"k", "KTMP", 28>>, \* 1305
    <<"add", "TMP0", "MSGA3", "KTMP">>, \* 1306
    <<"mov", "TMP2", "STATEA0">>, \* 1307
    <<"su0", "MSGA3", "MSGA3", "MSGA0">>, \* 1308
    <<"h", "STATEA0", "STATEA0", "STATEA1", "TMP0">>, \* 1309
    <<"h2", "STATEA1", "STATEA1", "TMP2", "TMP0">>, \* 1310
    <<"su1", "MSGA3", "MSGA3", "MSGA1", "MSGA2">>, \* 1311
    <<"add", "TMP0", "MSGB3", "KTMP">>, \* 1313
    <<"mov", "TMP2", "STATEB0">>, \* 1314
    <<"su0", "MSGB3", "MSGB3", "MSGB0">>, \* 1315
    <<"h", "STATEB0", "STATEB0", "STATEB1", "TMP0">>, \* 1316
    <<"h2", "STATEB1", "STATEB1", "TMP2", "TMP0">>, \* 1317
    <<"su1", "MSGB3", "MSGB3", "MSGB1", "MSGB2">>, \* 1318
    <<"k", "KTMP", 32>>, \* 1321
    <<"add", "TMP0", "MSGA0", "KTMP">>, \* 1322
    <<"mov", "TMP2", "STATEA0">>, \* 1323
    <<"su0", "MSGA0", "MSGA0", "MSGA1">>, \* 1324
    <<"h", "STATEA0", "STATEA0", "STATEA1", "TMP0">>, \* 1325
    <<"h2", "STATEA1", "STATEA1", "TMP2", "TMP0">>, \* 1326
    <<"su1", "MSGA0", "MSGA0", "MSGA2", "MSGA3">>, \* 1327
    <<"add", "TMP0", "MSGB0", "KTMP">>, \* 1329
    <<"mov", "TMP2", "STATEB0">>, \* 1330
    <<"su0", "MSGB0", "MSGB0", "MSGB1">>, \* 1331
    <<"h", "STATEB0", "STATEB0", "STATEB1", "TMP0">>, \* 1332
    <<"h2", "STATEB1", "STATEB1", "TMP2", "TMP0">>, \* 1333
    <<"su1", "MSGB0", "MSGB0", "MSGB2", "MSGB3">>, \* 1334
    <<"k", "KTMP", 36>>, \* 1337
    <<"add", "TMP0", "MSGA1", "KTMP">>, \* 1338
    <<"mov", "TMP2", "STATEA0">>, \* 1339
    <<"su0", "MSGA1", "MSGA1", "MSGA2">>, \* 1340
    <<"h", "STATEA0", "STATEA0", "STATEA1", "TMP0">>, \* 1341
    <<"h2", "STATEA1", "STATEA1", "TMP2", "TMP0">>, \* 1342
    <<"su1", "MSGA1", "MSGA1", "MSGA3", "MSGA0">>, \* 1343
    <<"add", "TMP0", "MSGB1", "KTMP">>, \* 1345
    <<"mov", "TMP2", "STATEB0">>, \* 1346
    <<"su0", "MSGB1", "MSGB1", "MSGB2">>, \* 1347
    <<"h", "STATEB0", "STATEB0", "STATEB1", "TMP0">>, \* 1348
    <<"h2", "STATEB1", "STATEB1", "TMP2", "TMP0">>, \* 1349
    <<"su1", "MSGB1", "MSGB1", "MSGB3", "MSGB0">>, \* 1350
    <<"k", "KTMP", 40>>, \* 1353
    <<"add", "TMP0", "MSGA2", "KTMP">>, \* 1354
    <<"mov", "TMP2", "STATEA0">>, \* 1355
    <<"su0", "MSGA2", "MSGA2", "MSGA3">>, \* 1356
    <<"h", "STATEA0", "STATEA0", "STATEA1", "TMP0">>, \* 1357
    <<"h2", "STATEA1", "STATEA1", "TMP2", "TMP0">>, \* 1358
    <<"su1", "MSGA2", "MSGA2", "MSGA0", "MSGA1">>, \* 1359
    <<"add", "TMP0", "MSGB2", "KTMP">>, \* 1361
    <<"mov", "TMP2", "STATEB0">>, \* 1362
    <<"su0", "MSGB2", "MSGB2", "MSGB3">>, \* 1363
    <<"h", "STATEB0", "STATEB0", "STATEB1", "TMP0">>, \* 1364
    <<"h2", "STATEB1", "STATEB1", "TMP2", "TMP0">>, \* 1365
    <<"su1", "MSGB2", "MSGB2", "MSGB0", "MSGB1">>, \* 1366
    <<"k", "KTMP", 44>>, \* 1369
    <<"add", "TMP0", "MSGA3", "KTMP">>, \* 1370
    <<"mov", "TMP2", "STATEA0">>, \* 1371
    <<"su0", "MSGA3", "MSGA3", "MSGA0">>, \* 1372
    <<"h", "STATEA0", "STATEA0", "STATEA1", "TMP0">>, \* 1373
    <<"h2", "STATEA1", "STATEA1", "TMP2", "TMP0">>, \* 1374
    <<"su1", "MSGA3", "MSGA3", "MSGA1", "MSGA2">>, \* 1375
    <<"add", "TMP0", "MSGB3", "KTMP">>, \* 1377
    <<"mov", "TMP2", "STATEB0">>, \* 1378
    <<"su0", "MSGB3", "MSGB3", "MSGB0">>, \* 1379
    <<"h", "STATEB0", "STATEB0", "STATEB1", "TMP0">>, \* 1380
    <<"h2", "STATEB1", "STATEB1", "TMP2", "TMP0">>, \* 1381
    <<"su1", "MSGB3", "MSGB3", "MSGB1", "MSGB2">>, \* 1382
    <<"k", "KTMP", 48>>, \* 1385
    <<"add", "TMP0", "MSGA0", "KTMP">>, \* 1386
    <<"mov", "TMP2", "STATEA0">>, \* 1387
    <<"h", "STATEA0", "STATEA0", "STATEA1", "TMP0">>, \* 1388
    <<"h2", "STATEA1", "STATEA1", "TMP2", "TMP0">>, \* 1389
    <<"add", "TMP0", "MSGB0", "KTMP">>, \* 1391
    <<"mov", "TMP2", "STATEB0">>, \* 1392
    <<"h", "STATEB0", "STATEB0", "STATEB1", "TMP0">>, \* 1393
    <<"h2", "STATEB1", "STATEB1", "TMP2", "TMP0">>, \* 1394
    <<"k", "KTMP", 52>>, \* 1397
    <<"add", "TMP0", "MSGA1", "KTMP">>, \* 1398
    <<"mov", "TMP2", "STATEA0">>, \* 1399
    <<"h", "STATEA0", "STATEA0", "STATEA1", "TMP0">>, \* 1400
    <<"h2", "STATEA1", "STATEA1", "TMP2", "TMP0">>, \* 1401
    <<"add", "TMP0", "MSGB1", "KTMP">>, \* 1403
    <<"mov", "TMP2", "STATEB0">>, \* 1404
    <<"h", "STATEB0", "STATEB0", "STATEB1", "TMP0">>, \* 1405
    <<"h2", "STATEB1", "STATEB1", "TMP2", "TMP0">>, \* 1406
    <<"k", "KTMP", 56>>, \* 1409
    <<"add", "TMP0", "MSGA2", "KTMP">>, \* 1410
    <<"mov", "TMP2", "STATEA0">>, \* 1411
    <<"h", "STATEA0", "STATEA0", "STATEA1", "TMP0">>, \* 1412
    <<"h2", "STATEA1", "STATEA1", "TMP2", "TMP0">>, \* 1413
    <<"add", "TMP0", "MSGB2", "KTMP">>, \* 1415
    <<"mov", "TMP2", "STATEB0">>, \* 1416
    <<"h", "STATEB0", "STATEB0", "STATEB1", "TMP0">>, \* 1417
    <<"h2", "STATEB1", "STATEB1", "TMP2", "TMP0">>, \* 1418
    <<"k", "KTMP", 60>>, \* 1421
    <<"add", "TMP0", "MSGA3", "KTMP">>, \* 1422
    <<"mov", "TMP2", "STATEA0">>, \* 1423
    <<"h", "STATEA0", "STATEA0", "STATEA1", "TMP0">>, \* 1424
    <<"h2", "STATEA1", "STATEA1", "TMP2", "TMP0">>, \* 1425
    <<"add", "TMP0", "MSGB3", "KTMP">>, \* 1427
    <<"mov", "TMP2", "STATEB0">>, \* 1428
    <<"h", "STATEB0", "STATEB0", "STATEB1", "TMP0">>, \* 1429
    <<"h2", "STATEB1", "STATEB1", "TMP2", "TMP0">>, \* 1430
    <<"add", "MSGA0", "STATEA0", "val[0]">>, \* 1436
    <<"add", "MSGA1", "STATEA1", "val[1]">>, \* 1437
    <<"mov", "MSGA2", "PADDING2A">>, \* 1438
    <<"mov", "MSGA3", "PADDING2B">>, \* 1439
    <<"add", "MSGB0", "STATEB0", "val[0]">>, \* 1451
    <<"add", "MSGB1", "STATEB1", "val[1]">>, \* 1452
    <<"mov", "MSGB2", "PADDING2A">>, \* 1453
    <<"mov", "MSGB3", "PADDING2B">>, \* 1454
    <<"mov", "STATEA0", "SHA256INIT0">>, \* 1457
    <<"mov", "STATEA1", "SHA256INIT1">>, \* 1458
    <<"mov", "STATEB0", "SHA256INIT0">>, \* 1459
    <<"mov", "STATEB1", "SHA256INIT1">>, \* 1460
    <<"k", "KTMP", 0>>, \* 1463
    <<"add", "TMP0", "MSGA0", "KTMP">>, \* 1464
    <<"mov", "TMP2", "STATEA0">>, \* 1465
    <<"su0", "MSGA0", "MSGA0", "MSGA1">>, \* 1466
    <<"h", "STATEA0", "STATEA0", "STATEA1", "TMP0">>, \* 1467
    <<"h2", "STATEA1", "STATEA1", "TMP2", "TMP0">>, \* 1468
    <<"su1", "MSGA0", "MSGA0", "MSGA2", "MSGA3">>, \* 1470
    <<"add", "TMP0", "MSGB0", "KTMP">>, \* 1472
    <<"mov", "TMP2", "STATEB0">>, \* 1473
    <<"su0", "MSGB0", "MSGB0", "MSGB1">>, \* 1474
    <<"h", "STATEB0", "STATEB0", "STATEB1", "TMP0">>, \* 1475
    <<"h2", "STATEB1", "STATEB1", "TMP2", "TMP0">>, \* 1476
    <<"su1", "MSGB0", "MSGB0", "MSGB2", "MSGB3">>, \* 1477
    <<"k", "KTMP", 4>>, \* 1480
    <<"add", "TMP0", "MSGA1", "KTMP">>, \* 1481
    <<"mov", "TMP2", "STATEA0">>, \* 1482
    <<"su0", "MSGA1", "MSGA1", "MSGA2">>, \* 1483
    <<"h", "STATEA0", "STATEA0", "STATEA1", "TMP0">>, \* 1484
    <<"h2", "STATEA1", "STATEA1", "TMP2", "TMP0">>, \* 1485
    <<"su1", "MSGA1", "MSGA1", "MSGA3", "MSGA0">>, \* 1486
    <<"add", "TMP0", "MSGB1", "KTMP">>, \* 1488
    <<"mov", "TMP2", "STATEB0">>, \* 1489
    <<"su0", "MSGB1", "MSGB1", "MSGB2">>, \* 1490
    <<"h", "STATEB0", "STATEB0", "STATEB1", "TMP0">>, \* 1491
    <<"h2", "STATEB1", "STATEB1", "TMP2", "TMP0">>, \* 1492
    <<"su1", "MSGB1", "MSGB1", "MSGB3", "MSGB0">>, \* 1493
    <<"k", "KTMP", 8>>, \* 1496
    <<"add", "TMP0", "MSGA2", "KTMP">>, \* 1498
    <<"mov", "TMP2", "STATEA0">>, \* 1499
    <<"su0", "MSGA2", "MSGA2", "MSGA3">>, \* 1501
    <<"h", "STATEA0", "STATEA0", "STATEA1", "TMP0">>, \* 1502
    <<"h2", "STATEA1", "STATEA1", "TMP2", "TMP0">>, \* 1503
    <<"su1", "MSGA2", "MSGA2", "MSGA0", "MSGA1">>, \* 1504
    <<"add", "TMP0", "MSGB2", "KTMP">>, \* 1506
    <<"mov", "TMP2", "STATEB0">>, \* 1507
    <<"su0", "MSGB2", "MSGB2", "MSGB3">>, \* 1508
    <<"h", "STATEB0", "STATEB0", "STATEB1", "TMP0">>, \* 1509
    <<"h2", "STATEB1", "STATEB1", "TMP2", "TMP0">>, \* 1510
    <<"su1", "MSGB2", "MSGB2", "MSGB0", "MSGB1">>, \* 1511
    <<"k", "KTMP", 12>>, \* 1514
    <<"add", "TMP0", "MSGA3", "KTMP">>, \* 1516
    <<"mov", "TMP2", "STATEA0">>, \* 1517
    <<"su0", "MSGA3", "MSGA3", "MSGA0">>, \* 1518
    <<"h", "STATEA0", "STATEA0", "STATEA1", "TMP0">>, \* 1519
    <<"h2", "STATEA1", "STATEA1", "TMP2", "TMP0">>, \* 1520
    <<"su1", "MSGA3", "MSGA3", "MSGA1", "MSGA2">>, \* 1521
    <<"add", "TMP0", "MSGB3", "KTMP">>, \* 1523
    <<"mov", "TMP2", "STATEB0">>, \* 1524
    <<"su0", "MSGB3", "MSGB3", "MSGB0">>, \* 1525
    <<"h", "STATEB0", "STATEB0", "STATEB1", "TMP0">>, \* 1526
    <<"h2", "STATEB1", "STATEB1", "TMP2", "TMP0">>, \* 1527
    <<"su1", "MSGB3", "MSGB3", "MSGB1", "MSGB2">>, \* 1528
    <<"k", "KTMP", 16>>, \* 1531
    <<"add", "TMP0", "MSGA0", "KTMP">>, \* 1532
    <<"mov", "TMP2", "STATEA0">>, \* 1533
    <<"su0", "MSGA0", "MSGA0", "MSGA1">>, \* 1534
    <<"h", "STATEA0", "STATEA0", "STATEA1", "TMP0">>, \* 1535
    <<"h2", "STATEA1", "STATEA1", "TMP2", "TMP0">>, \* 1536
    <<"su1", "MSGA0", "MSGA0", "MSGA2", "MSGA3">>, \* 1537
    <<"add", "TMP0", "MSGB0", "KTMP">>, \* 1539
    <<"mov", "TMP2", "STATEB0">>, \* 1540
    <<"su0", "MSGB0", "MSGB0", "MSGB1">>, \* 1541
    <<"h", "STATEB0", "STATEB0", "STATEB1", "TMP0">>, \* 1542
    <<"h2", "STATEB1", "STATEB1", "TMP2", "TMP0">>, \* 1543
    <<"su1", "MSGB0", "MSGB0", "MSGB2", "MSGB3">>, \* 1544
    <<"k", "KTMP", 20>>, \* 1547
    <<"add", "TMP0", "MSGA1", "KTMP">>, \* 1548
    <<"mov", "TMP2", "STATEA0">>, \* 1549
    <<"su0", "MSGA1", "MSGA1", "MSGA2">>, \* 1550
    <<"h", "STATEA0", "STATEA0", "STATEA1", "TMP0">>, \* 1551
    <<"h2", "STATEA1", "STATEA1", "TMP2", "TMP0">>, \* 1552
    <<"su1", "MSGA1", "MSGA1", "MSGA3", "MSGA0">>, \* 1553
    <<"add", "TMP0", "MSGB1", "KTMP">>, \* 1555
    <<"mov", "TMP2", "STATEB0">>, \* 1556
    <<"su0", "MSGB1", "MSGB1", "MSGB2">>, \* 1557
    <<"h", "STATEB0", "STATEB0", "STATEB1", "TMP0">>, \* 1558
    <<"h2", "STATEB1", "STATEB1", "TMP2", "TMP0">>, \* 1559
    <<"su1", "MSGB1", "MSGB1", "MSGB3", "MSGB0">>, \* 1560
    <<"k", "KTMP", 24>>, \* 1563
    <<"add", "TMP0", "MSGA2", "KTMP">>, \* 1564
    <<"mov", "TMP2", "STATEA0">>, \* 1565
    <<"su0", "MSGA2", "MSGA2", "MSGA3">>, \* 1566
    <<"h", "STATEA0", "STATEA0", "STATEA1", "TMP0">>, \* 1567
    <<"h2", "STATEA1", "STATEA1", "TMP2", "TMP0">>, \* 1568
    <<"su1", "MSGA2", "MSGA2", "MSGA0", "MSGA1">>, \* 1569
    <<"add", "TMP0", "MSGB2", "KTMP">>, \* 1571
    <<"mov", "TMP2", "STATEB0">>, \* 1572
    <<"su0", "MSGB2", "MSGB2", "MSGB3">>, \* 1573
    <<"h", "STATEB0", "STATEB0", "STATEB1", "TMP0">>, \* 1574
    <<"h2", "STATEB1", "STATEB1", "TMP2", "TMP0">>, \* 1575
    <<"su1", "MSGB2", "MSGB2", "MSGB0", "MSGB1">>, \* 1576
    <<"k", "KTMP", 28>>, \* 1579
    <<"add", "TMP0", "MSGA3", "KTMP">>, \* 1580
    <<"mov", "TMP2", "STATEA0">>, \* 1581
    <<"su0", "MSGA3", "MSGA3", "MSGA0">>, \* 1582
    <<"h", "STATEA0", "STATEA0", "STATEA1", "TMP0">>, \* 1583
    <<"h2", "STATEA1", "STATEA1", "TMP2", "TMP0">>, \* 1584
    <<"su1", "MSGA3", "MSGA3", "MSGA1", "MSGA2">>, \* 1585
    <<"add", "TMP0", "MSGB3", "KTMP">>, \* 1587
    <<"mov", "TMP2", "STATEB0">>, \* 1588
    <<"su0", "MSGB3", "MSGB3", "MSGB0">>, \* 1589
    <<"h", "STATEB0", "STATEB0", "STATEB1", "TMP0">>, \* 1590
    <<"h2", "STATEB1", "STATEB1", "TMP2", "TMP0">>, \* 1591
    <<"su1", "MSGB3", "MSGB3", "MSGB1", "MSGB2">>, \* 1592
    <<"k", "KTMP", 32>>, \* 1595
    <<"add", "TMP0", "MSGA0", "KTMP">>, \* 1596
    <<"mov", "TMP2", "STATEA0">>, \* 1597
    <<"su0", "MSGA0", "MSGA0", "MSGA1">>, \* 1598
    <<"h", "STATEA0", "STATEA0", "STATEA1", "TMP0">>, \* 1599
    <<"h2", "STATEA1", "STATEA1", "TMP2", "TMP0">>, \* 1600
    <<"su1", "MSGA0", "MSGA0", "MSGA2", "MSGA3">>, \* 1601
    <<"add", "TMP0", "MSGB0", "KTMP">>, \* 1603
    <<"mov", "TMP2", "STATEB0">>, \* 1604
    <<"su0", "MSGB0", "MSGB0", "MSGB1">>, \* 1605
    <<"h", "STATEB0", "STATEB0", "STATEB1", "TMP0">>, \* 1606
    <<"h2", "STATEB1", "STATEB1", "TMP2", "TMP0">>, \* 1607
    <<"su1", "MSGB0", "MSGB0", "MSGB2", "MSGB3">>, \* 1608
    <<"k", "KTMP", 36>>, \* 1611
    <<"add", "TMP0", "MSGA1", "KTMP">>, \* 1612
    <<"mov", "TMP2", "STATEA0">>, \* 1613
    <<"su0", "MSGA1", "MSGA1", "MSGA2">>, \* 1614
    <<"h", "STATEA0", "STATEA0", "STATEA1", "TMP0">>, \* 1615
    <<"h2", "STATEA1", "STATEA1", "TMP2", "TMP0">>, \* 1616
    <<"su1", "MSGA1", "MSGA1", "MSGA3", "MSGA0">>, \* 1617
    <<"add", "TMP0", "MSGB1", "KTMP">>, \* 1619
    <<"mov", "TMP2", "STATEB0">>, \* 1620
    <<"su0", "MSGB1", "MSGB1", "MSGB2">>, \* 1621
    <<"h", "STATEB0", "STATEB0", "STATEB1", "TMP0">>, \* 1622
    <<"h2", "STATEB1", "STATEB1", "TMP2", "TMP0">>, \* 1623
    <<"su1", "MSGB1", "MSGB1", "MSGB3", "MSGB0">>, \* 1624
    <<"k", "KTMP", 40>>, \* 1627
    <<"add", "TMP0", "MSGA2", "KTMP">>, \* 1628
    <<"mov", "TMP2", "STATEA0">>, \* 1629
    <<"su0", "MSGA2", "MSGA2", "MSGA3">>, \* 1630
    <<"h", "STATEA0", "STATEA0", "STATEA1", "TMP0">>, \* 1631
    <<"h2", "STATEA1", "STATEA1", "TMP2", "TMP0">>, \* 1632
    <<"su1", "MSGA2", "MSGA2", "MSGA0", "MSGA1">>, \* 1633
    <<"add", "TMP0", "MSGB2", "KTMP">>, \* 1635
    <<"mov", "TMP2", "STATEB0">>, \* 1636
    <<"su0", "MSGB2", "MSGB2", "MSGB3">>, \* 1637
    <<"h", "STATEB0", "STATEB0", "STATEB1", "TMP0">>, \* 1638
    <<"h2", "STATEB1", "STATEB1", "TMP2", "TMP0">>, \* 1639
    <<"su1", "MSGB2", "MSGB2", "MSGB0", "MSGB1">>, \* 1640
    <<"k", "KTMP", 44>>, \* 1643
    <<"add", "TMP0", "MSGA3", "KTMP">>, \* 1644
    <<"mov", "TMP2", "STATEA0">>, \* 1645
    <<"su0", "MSGA3", "MSGA3", "MSGA0">>, \* 1646
    <<"h", "STATEA0", "STATEA0", "STATEA1", "TMP0">>, \* 1647
    <<"h2", "STATEA1", "STATEA1", "TMP2", "TMP0">>, \* 1648
    <<"su1", "MSGA3", "MSGA3", "MSGA1", "MSGA2">>, \* 1649
    <<"add", "TMP0", "MSGB3", "KTMP">>, \* 1651
    <<"mov", "TMP2", "STATEB0">>, \* 1652
    <<"su0", "MSGB3", "MSGB3", "MSGB0">>, \* 1653
    <<"h", "STATEB0", "STATEB0", "STATEB1", "TMP0">>, \* 1654
    <<"h2", "STATEB1", "STATEB1", "TMP2", "TMP0">>, \* 1655
    <<"su1", "MSGB3", "MSGB3", "MSGB1", "MSGB2">>, \* 1656
    <<"k", "KTMP", 48>>, \* 1659
    <<"add", "TMP0", "MSGA0", "KTMP">>, \* 1660
    <<"mov", "TMP2", "STATEA0">>, \* 1661
    <<"h", "STATEA0", "STATEA0", "STATEA1", "TMP0">>, \* 1662
    <<"h2", "STATEA1", "STATEA1", "TMP2", "TMP0">>, \* 1663
    <<"add", "TMP0", "MSGB0", "KTMP">>, \* 1665
    <<"mov", "TMP2", "STATEB0">>, \* 1666
    <<"h", "STATEB0", "STATEB0", "STATEB1", "TMP0">>, \* 1667
    <<"h2", "STATEB1", "STATEB1", "TMP2", "TMP0">>, \* 1668
    <<"k", "KTMP", 52>>, \* 1671
    <<"add", "TMP0", "MSGA1", "KTMP">>, \* 1672
    <<"mov", "TMP2", "STATEA0">>, \* 1673
    <<"h", "STATEA0", "STATEA0", "STATEA1", "TMP0">>, \* 1674
    <<"h2", "STATEA1", "STATEA1", "TMP2", "TMP0">>, \* 1675
    <<"add", "TMP0", "MSGB1", "KTMP">>, \* 1677
    <<"mov", "TMP2", "STATEB0">>, \* 1678
    <<"h", "STATEB0", "STATEB0", "STATEB1", "TMP0">>, \* 1679
    <<"h2", "STATEB1", "STATEB1", "TMP2", "TMP0">>, \* 1680
    <<"k", "KTMP", 56>>, \* 1683
    <<"add", "TMP0", "MSGA2", "KTMP">>, \* 1684
    <<"mov", "TMP2", "STATEA0">>, \* 1685
    <<"h", "STATEA0", "STATEA0", "STATEA1", "TMP0">>, \* 1686
    <<"h2", "STATEA1", "STATEA1", "TMP2", "TMP0">>, \* 1687
    <<"add", "TMP0", "MSGB2", "KTMP">>, \* 1689
    <<"mov", "TMP2", "STATEB0">>, \* 1690
    <<"h", "STATEB0", "STATEB0", "STATEB1", "TMP0">>, \* 1691
    <<"h2", "STATEB1", "STATEB1", "TMP2", "TMP0">>, \* 1692
    <<"k", "KTMP", 60>>, \* 1695
    <<"add", "TMP0", "MSGA3", "KTMP">>, \* 1696
    <<"mov", "TMP2", "STATEA0">>, \* 1697
    <<"h", "STATEA0", "STATEA0", "STATEA1", "TMP0">>, \* 1698
    <<"h2", "STATEA1", "STATEA1", "TMP2", "TMP0">>, \* 1699
    <<"add", "TMP0", "MSGB3", "KTMP">>, \* 1701
    <<"mov", "TMP2", "STATEB0">>, \* 1702
    <<"h", "STATEB0", "STATEB0", "STATEB1", "TMP0">>, \* 1703
    <<"h2", "STATEB1", "STATEB1", "TMP2", "TMP0">>, \* 1704
    <<"add", "STATEA0", "STATEA0", "SHA256INIT0">>, \* 1707
    <<"add", "STATEA1", "STATEA1", "SHA256INIT1">>, \* 1708
    <<"add", "STATEB0", "STATEB0", "SHA256INIT0">>, \* 1710
    <<"add", "STATEB1", "STATEB1", "SHA256INIT1">> \* 1711
    >>

\* BleMiner3Way, the 3-lane hasher of the running miner: the three lanes'
\* messages, the nonce advancing by one per lane, and the message schedule
\* of rounds 1-8, whose state BleMinerTransform1 left in val[12], val[13]
BleMiner3Way_Head ==
    <<
    <<"set", "SHA256INIT0", SHA256INIT0>>, \* 1744
    <<"set", "SHA256INIT1", SHA256INIT1>>, \* 1745
    <<"set", "PADDING2A", PADDING2A>>, \* 1747
    <<"set", "PADDING2B", PADDING2B>>, \* 1748
    <<"mov", "MSGA0", "val[2]">>, \* 1762
    <<"mov", "MSGA1", "val[3]">>, \* 1763
    <<"rev", "MSGA2", "val[4]">>, \* 1766
    <<"mov", "MSGA3", "val[5]">>, \* 1767
    <<"inc", "val[4]", 3>>, \* 1770
    <<"mov", "MSGB0", "val[2]">>, \* 1772
    <<"mov", "MSGB1", "val[3]">>, \* 1773
    <<"rev", "MSGB2", "val[4]">>, \* 1775
    <<"mov", "MSGB3", "val[5]">>, \* 1776
    <<"inc", "val[4]", 3>>, \* 1779
    <<"mov", "MSGC0", "val[2]">>, \* 1781
    <<"mov", "MSGC1", "val[3]">>, \* 1782
    <<"rev", "MSGC2", "val[4]">>, \* 1784
    <<"mov", "MSGC3", "val[5]">>, \* 1785
    <<"inc", "val[4]", 3>>, \* 1788
    <<"su1", "MSGA0", "MSGA0", "MSGA2", "MSGA3">>, \* 1803
    <<"su1", "MSGB0", "MSGB0", "MSGB2", "MSGB3">>, \* 1810
    <<"su1", "MSGC0", "MSGC0", "MSGC2", "MSGC3">>, \* 1817
    <<"su0", "MSGA1", "MSGA1", "MSGA2">>, \* 1823
    <<"su1", "MSGA1", "MSGA1", "MSGA3", "MSGA0">>, \* 1826
    <<"su0", "MSGB1", "MSGB1", "MSGB2">>, \* 1830
    <<"su1", "MSGB1", "MSGB1", "MSGB3", "MSGB0">>, \* 1833
    <<"su0", "MSGC1", "MSGC1", "MSGC2">>, \* 1837
    <<"su1", "MSGC1", "MSGC1", "MSGC3", "MSGC0">> \* 1840
    >>

\* rounds 9-12 as they would be if lanes B and C took lane A's sum, as in rounds
\* 13-16
BleMiner3Way_Rounds9to12_Shared ==
    <<
    <<"k", "KTMP", 8>>, \* 1843
    <<"add", "TMP0", "MSGA2", "KTMP">>, \* 1844
    <<"su0", "MSGA2", "MSGA2", "MSGA3">>, \* 1846
    <<"h", "val[6]", "val[12]", "val[13]", "TMP0">>, \* 1847
    <<"h2", "val[7]", "val[13]", "val[12]", "TMP0">>, \* 1848
    <<"su1", "MSGA2", "MSGA2", "MSGA0", "MSGA1">>, \* 1849
    <<"su0", "MSGB2", "MSGB2", "MSGB3">>, \* 1853
    <<"h", "val[8]", "val[12]", "val[13]", "TMP0">>, \* 1854
    <<"h2", "val[9]", "val[13]", "val[12]", "TMP0">>, \* 1855
    <<"su1", "MSGB2", "MSGB2", "MSGB0", "MSGB1">>, \* 1856
    <<"su0", "MSGC2", "MSGC2", "MSGC3">>, \* 1860
    <<"h", "val[10]", "val[12]", "val[13]", "TMP0">>, \* 1861
    <<"h2", "val[11]", "val[13]", "val[12]", "TMP0">>, \* 1862
    <<"su1", "MSGC2", "MSGC2", "MSGC0", "MSGC1">> \* 1863
    >>


\* BleMiner3Way, rounds 9-12: each lane adds the round constants to its own
\* third message vector, which holds its nonce
BleMiner3Way_Rounds9to12 ==
    <<
    <<"k", "KTMP", 8>>, \* 1843
    <<"add", "TMP0", "MSGA2", "KTMP">>, \* 1844
    <<"su0", "MSGA2", "MSGA2", "MSGA3">>, \* 1846
    <<"h", "val[6]", "val[12]", "val[13]", "TMP0">>, \* 1847
    <<"h2", "val[7]", "val[13]", "val[12]", "TMP0">>, \* 1848
    <<"su1", "MSGA2", "MSGA2", "MSGA0", "MSGA1">>, \* 1849
    <<"add", "TMP0", "MSGB2", "KTMP">>, \* 1851
    <<"su0", "MSGB2", "MSGB2", "MSGB3">>, \* 1853
    <<"h", "val[8]", "val[12]", "val[13]", "TMP0">>, \* 1854
    <<"h2", "val[9]", "val[13]", "val[12]", "TMP0">>, \* 1855
    <<"su1", "MSGB2", "MSGB2", "MSGB0", "MSGB1">>, \* 1856
    <<"add", "TMP0", "MSGC2", "KTMP">>, \* 1858
    <<"su0", "MSGC2", "MSGC2", "MSGC3">>, \* 1860
    <<"h", "val[10]", "val[12]", "val[13]", "TMP0">>, \* 1861
    <<"h2", "val[11]", "val[13]", "val[12]", "TMP0">>, \* 1862
    <<"su1", "MSGC2", "MSGC2", "MSGC0", "MSGC1">> \* 1863
    >>

\* BleMiner3Way, rounds 13-16: the sum computed for lane A is used by all lanes
BleMiner3Way_Rounds13to16 ==
    <<
    <<"k", "KTMP", 12>>, \* 1866
    <<"add", "TMP0", "MSGA3", "KTMP">>, \* 1868
    <<"mov", "TMP2", "val[6]">>, \* 1869
    <<"su0", "MSGA3", "MSGA3", "MSGA0">>, \* 1870
    <<"h", "val[6]", "val[6]", "val[7]", "TMP0">>, \* 1871
    <<"h2", "val[7]", "val[7]", "TMP2", "TMP0">>, \* 1872
    <<"su1", "MSGA3", "MSGA3", "MSGA1", "MSGA2">>, \* 1873
    <<"mov", "TMP2", "val[8]">>, \* 1876
    <<"su0", "MSGB3", "MSGB3", "MSGB0">>, \* 1877
    <<"h", "val[8]", "val[8]", "val[9]", "TMP0">>, \* 1878
    <<"h2", "val[9]", "val[9]", "TMP2", "TMP0">>, \* 1879
    <<"su1", "MSGB3", "MSGB3", "MSGB1", "MSGB2">>, \* 1880
    <<"mov", "TMP2", "val[10]">>, \* 1883
    <<"su0", "MSGC3", "MSGC3", "MSGC0">>, \* 1884
    <<"h", "val[10]", "val[10]", "val[11]", "TMP0">>, \* 1885
    <<"h2", "val[11]", "val[11]", "TMP2", "TMP0">>, \* 1886
    <<"su1", "MSGC3", "MSGC3", "MSGC1", "MSGC2">> \* 1887
    >>

\* BleMiner3Way, rounds 17-64, the first digests and the second hash
BleMiner3Way_Tail ==
    <<
    <<"k", "KTMP", 16>>, \* 1890
    <<"add", "TMP0", "MSGA0", "KTMP">>, \* 1891
    <<"mov", "TMP2", "val[6]">>, \* 1892
    <<"su0", "MSGA0", "MSGA0", "MSGA1">>, \* 1893
    <<"h", "val[6]", "val[6]", "val[7]", "TMP0">>, \* 1894
    <<"h2", "val[7]", "val[7]", "TMP2", "TMP0">>, \* 1895
    <<"su1", "MSGA0", "MSGA0", "MSGA2", "MSGA3">>, \* 1896
    <<"add", "TMP0", "MSGB0", "KTMP">>, \* 1898
    <<"mov", "TMP2", "val[8]">>, \* 1899
    <<"su0", "MSGB0", "MSGB0", "MSGB1">>, \* 1900
    <<"h", "val[8]", "val[8]", "val[9]", "TMP0">>, \* 1901
    <<"h2", "val[9]", "val[9]", "TMP2", "TMP0">>, \* 1902
    <<"su1", "MSGB0", "MSGB0", "MSGB2", "MSGB3">>, \* 1903
    <<"add", "TMP0", "MSGC0", "KTMP">>, \* 1905
    <<"mov", "TMP2", "val[10]">>, \* 1906
    <<"su0", "MSGC0", "MSGC0", "MSGC1">>, \* 1907
    <<"h", "val[10]", "val[10]", "val[11]", "TMP0">>, \* 1908
    <<"h2", "val[11]", "val[11]", "TMP2", "TMP0">>, \* 1909
    <<"su1", "MSGC0", "MSGC0", "MSGC2", "MSGC3">>, \* 1910
    <<"k", "KTMP", 20>>, \* 1913
    <<"add", "TMP0", "MSGA1", "KTMP">>, \* 1914
    <<"mov", "TMP2", "val[6]">>, \* 1915
    <<"su0", "MSGA1", "MSGA1", "MSGA2">>, \* 1916
    <<"h", "val[6]", "val[6]", "val[7]", "TMP0">>, \* 1917
    <<"h2", "val[7]", "val[7]", "TMP2", "TMP0">>, \* 1918
    <<"su1", "MSGA1", "MSGA1", "MSGA3", "MSGA0">>, \* 1919
    <<"add", "TMP0", "MSGB1", "KTMP">>, \* 1921
    <<"mov", "TMP2", "val[8]">>, \* 1922
    <<"su0", "MSGB1", "MSGB1", "MSGB2">>, \* 1923
    <<"h", "val[8]", "val[8]", "val[9]", "TMP0">>, \* 1924
    <<"h2", "val[9]", "val[9]", "TMP2", "TMP0">>, \* 1925
    <<"su1", "MSGB1", "MSGB1", "MSGB3", "MSGB0">>, \* 1926
    <<"add", "TMP0", "MSGC1", "KTMP">>, \* 1928
    <<"mov", "TMP2", "val[10]">>, \* 1929
    <<"su0", "MSGC1", "MSGC1", "MSGC2">>, \* 1930
    <<"h", "val[10]", "val[10]", "val[11]", "TMP0">>, \* 1931
    <<"h2", "val[11]", "val[11]", "TMP2", "TMP0">>, \* 1932
    <<"su1", "MSGC1", "MSGC1", "MSGC3", "MSGC0">>, \* 1933
    <<"k", "KTMP", 24>>, \* 1936
    <<"add", "TMP0", "MSGA2", "KTMP">>, \* 1937
    <<"mov", "TMP2", "val[6]">>, \* 1938
    <<"su0", "MSGA2", "MSGA2", "MSGA3">>, \* 1939
    <<"h", "val[6]", "val[6]", "val[7]", "TMP0">>, \* 1940
    <<"h2", "val[7]", "val[7]", "TMP2", "TMP0">>, \* 1941
    <<"su1", "MSGA2", "MSGA2", "MSGA0", "MSGA1">>, \* 1942
    <<"add", "TMP0", "MSGB2", "KTMP">>, \* 1944
    <<"mov", "TMP2", "val[8]">>, \* 1945
    <<"su0", "MSGB2", "MSGB2", "MSGB3">>, \* 1946
    <<"h", "val[8]", "val[8]", "val[9]", "TMP0">>, \* 1947
    <<"h2", "val[9]", "val[9]", "TMP2", "TMP0">>, \* 1948
    <<"su1", "MSGB2", "MSGB2", "MSGB0", "MSGB1">>, \* 1949
    <<"add", "TMP0", "MSGC2", "KTMP">>, \* 1951
    <<"mov", "TMP2", "val[10]">>, \* 1952
    <<"su0", "MSGC2", "MSGC2", "MSGC3">>, \* 1953
    <<"h", "val[10]", "val[10]", "val[11]", "TMP0">>, \* 1954
    <<"h2", "val[11]", "val[11]", "TMP2", "TMP0">>, \* 1955
    <<"su1", "MSGC2", "MSGC2", "MSGC0", "MSGC1">>, \* 1956
    <<"k", "KTMP", 28>>, \* 1959
    <<"add", "TMP0", "MSGA3", "KTMP">>, \* 1960
    <<"mov", "TMP2", "val[6]">>, \* 1961
    <<"su0", "MSGA3", "MSGA3", "MSGA0">>, \* 1962
    <<"h", "val[6]", "val[6]", "val[7]", "TMP0">>, \* 1963
    <<"h2", "val[7]", "val[7]", "TMP2", "TMP0">>, \* 1964
    <<"su1", "MSGA3", "MSGA3", "MSGA1", "MSGA2">>, \* 1965
    <<"add", "TMP0", "MSGB3", "KTMP">>, \* 1967
    <<"mov", "TMP2", "val[8]">>, \* 1968
    <<"su0", "MSGB3", "MSGB3", "MSGB0">>, \* 1969
    <<"h", "val[8]", "val[8]", "val[9]", "TMP0">>, \* 1970
    <<"h2", "val[9]", "val[9]", "TMP2", "TMP0">>, \* 1971
    <<"su1", "MSGB3", "MSGB3", "MSGB1", "MSGB2">>, \* 1972
    <<"add", "TMP0", "MSGC3", "KTMP">>, \* 1974
    <<"mov", "TMP2", "val[10]">>, \* 1975
    <<"su0", "MSGC3", "MSGC3", "MSGC0">>, \* 1976
    <<"h", "val[10]", "val[10]", "val[11]", "TMP0">>, \* 1977
    <<"h2", "val[11]", "val[11]", "TMP2", "TMP0">>, \* 1978
    <<"su1", "MSGC3", "MSGC3", "MSGC1", "MSGC2">>, \* 1979
    <<"k", "KTMP", 32>>, \* 1982
    <<"add", "TMP0", "MSGA0", "KTMP">>, \* 1983
    <<"mov", "TMP2", "val[6]">>, \* 1984
    <<"su0", "MSGA0", "MSGA0", "MSGA1">>, \* 1985
    <<"h", "val[6]", "val[6]", "val[7]", "TMP0">>, \* 1986
    <<"h2", "val[7]", "val[7]", "TMP2", "TMP0">>, \* 1987
    <<"su1", "MSGA0", "MSGA0", "MSGA2", "MSGA3">>, \* 1988
    <<"add", "TMP0", "MSGB0", "KTMP">>, \* 1990
    <<"mov", "TMP2", "val[8]">>, \* 1991
    <<"su0", "MSGB0", "MSGB0", "MSGB1">>, \* 1992
    <<"h", "val[8]", "val[8]", "val[9]", "TMP0">>, \* 1993
    <<"h2", "val[9]", "val[9]", "TMP2", "TMP0">>, \* 1994
    <<"su1", "MSGB0", "MSGB0", "MSGB2", "MSGB3">>, \* 1995
    <<"add", "TMP0", "MSGC0", "KTMP">>, \* 1997
    <<"mov", "TMP2", "val[10]">>, \* 1998
    <<"su0", "MSGC0", "MSGC0", "MSGC1">>, \* 1999
    <<"h", "val[10]", "val[10]", "val[11]", "TMP0">>, \* 2000
    <<"h2", "val[11]", "val[11]", "TMP2", "TMP0">>, \* 2001
    <<"su1", "MSGC0", "MSGC0", "MSGC2", "MSGC3">>, \* 2002
    <<"k", "KTMP", 36>>, \* 2005
    <<"add", "TMP0", "MSGA1", "KTMP">>, \* 2006
    <<"mov", "TMP2", "val[6]">>, \* 2007
    <<"su0", "MSGA1", "MSGA1", "MSGA2">>, \* 2008
    <<"h", "val[6]", "val[6]", "val[7]", "TMP0">>, \* 2009
    <<"h2", "val[7]", "val[7]", "TMP2", "TMP0">>, \* 2010
    <<"su1", "MSGA1", "MSGA1", "MSGA3", "MSGA0">>, \* 2011
    <<"add", "TMP0", "MSGB1", "KTMP">>, \* 2013
    <<"mov", "TMP2", "val[8]">>, \* 2014
    <<"su0", "MSGB1", "MSGB1", "MSGB2">>, \* 2015
    <<"h", "val[8]", "val[8]", "val[9]", "TMP0">>, \* 2016
    <<"h2", "val[9]", "val[9]", "TMP2", "TMP0">>, \* 2017
    <<"su1", "MSGB1", "MSGB1", "MSGB3", "MSGB0">>, \* 2018
    <<"add", "TMP0", "MSGC1", "KTMP">>, \* 2020
    <<"mov", "TMP2", "val[10]">>, \* 2021
    <<"su0", "MSGC1", "MSGC1", "MSGC2">>, \* 2022
    <<"h", "val[10]", "val[10]", "val[11]", "TMP0">>, \* 2023
    <<"h2", "val[11]", "val[11]", "TMP2", "TMP0">>, \* 2024
    <<"su1", "MSGC1", "MSGC1", "MSGC3", "MSGC0">>, \* 2025
    <<"k", "KTMP", 40>>, \* 2028
    <<"add", "TMP0", "MSGA2", "KTMP">>, \* 2029
    <<"mov", "TMP2", "val[6]">>, \* 2030
    <<"su0", "MSGA2", "MSGA2", "MSGA3">>, \* 2031
    <<"h", "val[6]", "val[6]", "val[7]", "TMP0">>, \* 2032
    <<"h2", "val[7]", "val[7]", "TMP2", "TMP0">>, \* 2033
    <<"su1", "MSGA2", "MSGA2", "MSGA0", "MSGA1">>, \* 2034
    <<"add", "TMP0", "MSGB2", "KTMP">>, \* 2036
    <<"mov", "TMP2", "val[8]">>, \* 2037
    <<"su0", "MSGB2", "MSGB2", "MSGB3">>, \* 2038
    <<"h", "val[8]", "val[8]", "val[9]", "TMP0">>, \* 2039
    <<"h2", "val[9]", "val[9]", "TMP2", "TMP0">>, \* 2040
    <<"su1", "MSGB2", "MSGB2", "MSGB0", "MSGB1">>, \* 2041
    <<"add", "TMP0", "MSGC2", "KTMP">>, \* 2043
    <<"mov", "TMP2", "val[10]">>, \* 2044
    <<"su0", "MSGC2", "MSGC2", "MSGC3">>, \* 2045
    <<"h", "val[10]", "val[10]", "val[11]", "TMP0">>, \* 2046
    <<"h2", "val[11]", "val[11]", "TMP2", "TMP0">>, \* 2047
    <<"su1", "MSGC2", "MSGC2", "MSGC0", "MSGC1">>, \* 2048
    <<"k", "KTMP", 44>>, \* 2051
    <<"add", "TMP0", "MSGA3", "KTMP">>, \* 2052
    <<"mov", "TMP2", "val[6]">>, \* 2053
    <<"su0", "MSGA3", "MSGA3", "MSGA0">>, \* 2054
    <<"h", "val[6]", "val[6]", "val[7]", "TMP0">>, \* 2055
    <<"h2", "val[7]", "val[7]", "TMP2", "TMP0">>, \* 2056
    <<"su1", "MSGA3", "MSGA3", "MSGA1", "MSGA2">>, \* 2057
    <<"add", "TMP0", "MSGB3", "KTMP">>, \* 2059
    <<"mov", "TMP2", "val[8]">>, \* 2060
    <<"su0", "MSGB3", "MSGB3", "MSGB0">>, \* 2061
    <<"h", "val[8]", "val[8]", "val[9]", "TMP0">>, \* 2062
    <<"h2", "val[9]", "val[9]", "TMP2", "TMP0">>, \* 2063
    <<"su1", "MSGB3", "MSGB3", "MSGB1", "MSGB2">>, \* 2064
    <<"add", "TMP0", "MSGC3", "KTMP">>, \* 2066
    <<"mov", "TMP2", "val[10]">>, \* 2067
    <<"su0", "MSGC3", "MSGC3", "MSGC0">>, \* 2068
    <<"h", "val[10]", "val[10]", "val[11]", "TMP0">>, \* 2069
    <<"h2", "val[11]", "val[11]", "TMP2", "TMP0">>, \* 2070
    <<"su1", "MSGC3", "MSGC3", "MSGC1", "MSGC2">>, \* 2071
    <<"k", "KTMP", 48>>, \* 2074
    <<"add", "TMP0", "MSGA0", "KTMP">>, \* 2075
    <<"mov", "TMP2", "val[6]">>, \* 2076
    <<"h", "val[6]", "val[6]", "val[7]", "TMP0">>, \* 2077
    <<"h2", "val[7]", "val[7]", "TMP2", "TMP0">>, \* 2078
    <<"add", "TMP0", "MSGB0", "KTMP">>, \* 2080
    <<"mov", "TMP2", "val[8]">>, \* 2081
    <<"h", "val[8]", "val[8]", "val[9]", "TMP0">>, \* 2082
    <<"h2", "val[9]", "val[9]", "TMP2", "TMP0">>, \* 2083
    <<"add", "TMP0", "MSGC0", "KTMP">>, \* 2085
    <<"mov", "TMP2", "val[10]">>, \* 2086
    <<"h", "val[10]", "val[10]", "val[11]", "TMP0">>, \* 2087
    <<"h2", "val[11]", "val[11]", "TMP2", "TMP0">>, \* 2088
    <<"k", "KTMP", 52>>, \* 2091
    <<"add", "TMP0", "MSGA1", "KTMP">>, \* 2092
    <<"mov", "TMP2", "val[6]">>, \* 2093
    <<"h", "val[6]", "val[6]", "val[7]", "TMP0">>, \* 2094
    <<"h2", "val[7]", "val[7]", "TMP2", "TMP0">>, \* 2095
    <<"add", "TMP0", "MSGB1", "KTMP">>, \* 2097
    <<"mov", "TMP2", "val[8]">>, \* 2098
    <<"h", "val[8]", "val[8]", "val[9]", "TMP0">>, \* 2099
    <<"h2", "val[9]", "val[9]", "TMP2", "TMP0">>, \* 2100
    <<"add", "TMP0", "MSGC1", "KTMP">>, \* 2102
    <<"mov", "TMP2", "val[10]">>, \* 2103
    <<"h", "val[10]", "val[10]", "val[11]", "TMP0">>, \* 2104
    <<"h2", "val[11]", "val[11]", "TMP2", "TMP0">>, \* 2105
    <<"k", "KTMP", 56>>, \* 2108
    <<"add", "TMP0", "MSGA2", "KTMP">>, \* 2109
    <<"mov", "TMP2", "val[6]">>, \* 2110
    <<"h", "val[6]", "val[6]", "val[7]", "TMP0">>, \* 2111
    <<"h2", "val[7]", "val[7]", "TMP2", "TMP0">>, \* 2112
    <<"add", "TMP0", "MSGB2", "KTMP">>, \* 2114
    <<"mov", "TMP2", "val[8]">>, \* 2115
    <<"h", "val[8]", "val[8]", "val[9]", "TMP0">>, \* 2116
    <<"h2", "val[9]", "val[9]", "TMP2", "TMP0">>, \* 2117
    <<"add", "TMP0", "MSGC2", "KTMP">>, \* 2119
    <<"mov", "TMP2", "val[10]">>, \* 2120
    <<"h", "val[10]", "val[10]", "val[11]", "TMP0">>, \* 2121
    <<"h2", "val[11]", "val[11]", "TMP2", "TMP0">>, \* 2122
    <<"k", "KTMP", 60>>, \* 2125
    <<"add", "TMP0", "MSGA3", "KTMP">>, \* 2126
    <<"mov", "TMP2", "val[6]">>, \* 2127
    <<"h", "val[6]", "val[6]", "val[7]", "TMP0">>, \* 2128
    <<"h2", "val[7]", "val[7]", "TMP2", "TMP0">>, \* 2129
    <<"add", "TMP0", "MSGB3", "KTMP">>, \* 2131
    <<"mov", "TMP2", "val[8]">>, \* 2132
    <<"h", "val[8]", "val[8]", "val[9]", "TMP0">>, \* 2133
    <<"h2", "val[9]", "val[9]", "TMP2", "TMP0">>, \* 2134
    <<"add", "TMP0", "MSGC3", "KTMP">>, \* 2136
    <<"mov", "TMP2", "val[10]">>, \* 2137
    <<"h", "val[10]", "val[10]", "val[11]", "TMP0">>, \* 2138
    <<"h2", "val[11]", "val[11]", "TMP2", "TMP0">>, \* 2139
    <<"add", "MSGA0", "val[6]", "val[0]">>, \* 2145
    <<"add", "MSGA1", "val[7]", "val[1]">>, \* 2146
    <<"mov", "MSGA2", "PADDING2A">>, \* 2147
    <<"mov", "MSGA3", "PADDING2B">>, \* 2148
    <<"add", "MSGB0", "val[8]", "val[0]">>, \* 2160
    <<"add", "MSGB1", "val[9]", "val[1]">>, \* 2161
    <<"mov", "MSGB2", "PADDING2A">>, \* 2162
    <<"mov", "MSGB3", "PADDING2B">>, \* 2163
    <<"add", "MSGC0", "val[10]", "val[0]">>, \* 2165
    <<"add", "MSGC1", "val[11]", "val[1]">>, \* 2166
    <<"mov", "MSGC2", "PADDING2A">>, \* 2167
    <<"mov", "MSGC3", "PADDING2B">>, \* 2168
    <<"mov", "val[6]", "SHA256INIT0">>, \* 2171
    <<"mov", "val[7]", "SHA256INIT1">>, \* 2172
    <<"mov", "val[8]", "SHA256INIT0">>, \* 2173
    <<"mov", "val[9]", "SHA256INIT1">>, \* 2174
    <<"mov", "val[10]", "SHA256INIT0">>, \* 2175
    <<"mov", "val[11]", "SHA256INIT1">>, \* 2176
    <<"k", "KTMP", 0>>, \* 2179
    <<"add", "TMP0", "MSGA0", "KTMP">>, \* 2180
    <<"mov", "TMP2", "val[6]">>, \* 2181
    <<"su0", "MSGA0", "MSGA0", "MSGA1">>, \* 2182
    <<"h", "val[6]", "val[6]", "val[7]", "TMP0">>, \* 2183
    <<"h2", "val[7]", "val[7]", "TMP2", "TMP0">>, \* 2184
    <<"su1", "MSGA0", "MSGA0", "MSGA2", "MSGA3">>, \* 2186
    <<"add", "TMP0", "MSGB0", "KTMP">>, \* 2188
    <<"mov", "TMP2", "val[8]">>, \* 2189
    <<"su0", "MSGB0", "MSGB0", "MSGB1">>, \* 2190
    <<"h", "val[8]", "val[8]", "val[9]", "TMP0">>, \* 2191
    <<"h2", "val[9]", "val[9]", "TMP2", "TMP0">>, \* 2192
    <<"su1", "MSGB0", "MSGB0", "MSGB2", "MSGB3">>, \* 2193
    <<"add", "TMP0", "MSGC0", "KTMP">>, \* 2195
    <<"mov", "TMP2", "val[10]">>, \* 2196
    <<"su0", "MSGC0", "MSGC0", "MSGC1">>, \* 2197
    <<"h", "val[10]", "val[10]", "val[11]", "TMP0">>, \* 2198
    <<"h2", "val[11]", "val[11]", "TMP2", "TMP0">>, \* 2199
    <<"su1", "MSGC0", "MSGC0", "MSGC2", "MSGC3">>, \* 2200
    <<"k", "KTMP", 4>>, \* 2203
    <<"add", "TMP0", "MSGA1", "KTMP">>, \* 2204
    <<"mov", "TMP2", "val[6]">>, \* 2205
    <<"su0", "MSGA1", "MSGA1", "MSGA2">>, \* 2206
    <<"h", "val[6]", "val[6]", "val[7]", "TMP0">>, \* 2207
    <<"h2", "val[7]", "val[7]", "TMP2", "TMP0">>, \* 2208
    <<"su1", "MSGA1", "MSGA1", "MSGA3", "MSGA0">>, \* 2209
    <<"add", "TMP0", "MSGB1", "KTMP">>, \* 2211
    <<"mov", "TMP2", "val[8]">>, \* 2212
    <<"su0", "MSGB1", "MSGB1", "MSGB2">>, \* 2213
    <<"h", "val[8]", "val[8]", "val[9]", "TMP0">>, \* 2214
    <<"h2", "val[9]", "val[9]", "TMP2", "TMP0">>, \* 2215
    <<"su1", "MSGB1", "MSGB1", "MSGB3", "MSGB0">>, \* 2216
    <<"add", "TMP0", "MSGC1", "KTMP">>, \* 2218
    <<"mov", "TMP2", "val[10]">>, \* 2219
    <<"su0", "MSGC1", "MSGC1", "MSGC2">>, \* 2220
    <<"h", "val[10]", "val[10]", "val[11]", "TMP0">>, \* 2221
    <<"h2", "val[11]", "val[11]", "TMP2", "TMP0">>, \* 2222
    <<"su1", "MSGC1", "MSGC1", "MSGC3", "MSGC0">>, \* 2223
    <<"k", "KTMP", 8>>, \* 2226
    <<"add", "TMP0", "MSGA2", "KTMP">>, \* 2228
    <<"mov", "TMP2", "val[6]">>, \* 2229
    <<"su0", "MSGA2", "MSGA2", "MSGA3">>, \* 2231
    <<"h", "val[6]", "val[6]", "val[7]", "TMP0">>, \* 2232
    <<"h2", "val[7]", "val[7]", "TMP2", "TMP0">>, \* 2233
    <<"su1", "MSGA2", "MSGA2", "MSGA0", "MSGA1">>, \* 2234
    <<"add", "TMP0", "MSGB2", "KTMP">>, \* 2236
    <<"mov", "TMP2", "val[8]">>, \* 2237
    <<"su0", "MSGB2", "MSGB2", "MSGB3">>, \* 2238
    <<"h", "val[8]", "val[8]", "val[9]", "TMP0">>, \* 2239
    <<"h2", "val[9]", "val[9]", "TMP2", "TMP0">>, \* 2240
    <<"su1", "MSGB2", "MSGB2", "MSGB0", "MSGB1">>, \* 2241
    <<"add", "TMP0", "MSGC2", "KTMP">>, \* 2243
    <<"mov", "TMP2", "val[10]">>, \* 2244
    <<"su0", "MSGC2", "MSGC2", "MSGC3">>, \* 2245
    <<"h", "val[10]", "val[10]", "val[11]", "TMP0">>, \* 2246
    <<"h2", "val[11]", "val[11]", "TMP2", "TMP0">>, \* 2247
    <<"su1", "MSGC2", "MSGC2", "MSGC0", "MSGC1">>, \* 2248
    <<"k", "KTMP", 12>>, \* 2251
    <<"add", "TMP0", "MSGA3", "KTMP">>, \* 2253
    <<"mov", "TMP2", "val[6]">>, \* 2254
    <<"su0", "MSGA3", "MSGA3", "MSGA0">>, \* 2255
    <<"h", "val[6]", "val[6]", "val[7]", "TMP0">>, \* 2256
    <<"h2", "val[7]", "val[7]", "TMP2", "TMP0">>, \* 2257
    <<"su1", "MSGA3", "MSGA3", "MSGA1", "MSGA2">>, \* 2258
    <<"mov", "TMP2", "val[8]">>, \* 2261
    <<"su0", "MSGB3", "MSGB3", "MSGB0">>, \* 2262
    <<"h", "val[8]", "val[8]", "val[9]", "TMP0">>, \* 2263
    <<"h2", "val[9]", "val[9]", "TMP2", "TMP0">>, \* 2264
    <<"su1", "MSGB3", "MSGB3", "MSGB1", "MSGB2">>, \* 2265
    <<"mov", "TMP2", "val[10]">>, \* 2268
    <<"su0", "MSGC3", "MSGC3", "MSGC0">>, \* 2269
    <<"h", "val[10]", "val[10]", "val[11]", "TMP0">>, \* 2270
    <<"h2", "val[11]", "val[11]", "TMP2", "TMP0">>, \* 2271
    <<"su1", "MSGC3", "MSGC3", "MSGC1", "MSGC2">>, \* 2272
    <<"k", "KTMP", 16>>, \* 2275
    <<"add", "TMP0", "MSGA0", "KTMP">>, \* 2276
    <<"mov", "TMP2", "val[6]">>, \* 2277
    <<"su0", "MSGA0", "MSGA0", "MSGA1">>, \* 2278
    <<"h", "val[6]", "val[6]", "val[7]", "TMP0">>, \* 2279
    <<"h2", "val[7]", "val[7]", "TMP2", "TMP0">>, \* 2280
    <<"su1", "MSGA0", "MSGA0", "MSGA2", "MSGA3">>, \* 2281
    <<"add", "TMP0", "MSGB0", "KTMP">>, \* 2283
    <<"mov", "TMP2", "val[8]">>, \* 2284
    <<"su0", "MSGB0", "MSGB0", "MSGB1">>, \* 2285
    <<"h", "val[8]", "val[8]", "val[9]", "TMP0">>, \* 2286
    <<"h2", "val[9]", "val[9]", "TMP2", "TMP0">>, \* 2287
    <<"su1", "MSGB0", "MSGB0", "MSGB2", "MSGB3">>, \* 2288
    <<"add", "TMP0", "MSGC0", "KTMP">>, \* 2290
    <<"mov", "TMP2", "val[10]">>, \* 2291
    <<"su0", "MSGC0", "MSGC0", "MSGC1">>, \* 2292
    <<"h", "val[10]", "val[10]", "val[11]", "TMP0">>, \* 2293
    <<"h2", "val[11]", "val[11]", "TMP2", "TMP0">>, \* 2294
    <<"su1", "MSGC0", "MSGC0", "MSGC2", "MSGC3">>, \* 2295
    <<"k", "KTMP", 20>>, \* 2298
    <<"add", "TMP0", "MSGA1", "KTMP">>, \* 2299
    <<"mov", "TMP2", "val[6]">>, \* 2300
    <<"su0", "MSGA1", "MSGA1", "MSGA2">>, \* 2301
    <<"h", "val[6]", "val[6]", "val[7]", "TMP0">>, \* 2302
    <<"h2", "val[7]", "val[7]", "TMP2", "TMP0">>, \* 2303
    <<"su1", "MSGA1", "MSGA1", "MSGA3", "MSGA0">>, \* 2304
    <<"add", "TMP0", "MSGB1", "KTMP">>, \* 2306
    <<"mov", "TMP2", "val[8]">>, \* 2307
    <<"su0", "MSGB1", "MSGB1", "MSGB2">>, \* 2308
    <<"h", "val[8]", "val[8]", "val[9]", "TMP0">>, \* 2309
    <<"h2", "val[9]", "val[9]", "TMP2", "TMP0">>, \* 2310
    <<"su1", "MSGB1", "MSGB1", "MSGB3", "MSGB0">>, \* 2311
    <<"add", "TMP0", "MSGC1", "KTMP">>, \* 2313
    <<"mov", "TMP2", "val[10]">>, \* 2314
    <<"su0", "MSGC1", "MSGC1", "MSGC2">>, \* 2315
    <<"h", "val[10]", "val[10]", "val[11]", "TMP0">>, \* 2316
    <<"h2", "val[11]", "val[11]", "TMP2", "TMP0">>, \* 2317
    <<"su1", "MSGC1", "MSGC1", "MSGC3", "MSGC0">>, \* 2318
    <<"k", "KTMP", 24>>, \* 2321
    <<"add", "TMP0", "MSGA2", "KTMP">>, \* 2322
    <<"mov", "TMP2", "val[6]">>, \* 2323
    <<"su0", "MSGA2", "MSGA2", "MSGA3">>, \* 2324
    <<"h", "val[6]", "val[6]", "val[7]", "TMP0">>, \* 2325
    <<"h2", "val[7]", "val[7]", "TMP2", "TMP0">>, \* 2326
    <<"su1", "MSGA2", "MSGA2", "MSGA0", "MSGA1">>, \* 2327
    <<"add", "TMP0", "MSGB2", "KTMP">>, \* 2329
    <<"mov", "TMP2", "val[8]">>, \* 2330
    <<"su0", "MSGB2", "MSGB2", "MSGB3">>, \* 2331
    <<"h", "val[8]", "val[8]", "val[9]", "TMP0">>, \* 2332
    <<"h2", "val[9]", "val[9]", "TMP2", "TMP0">>, \* 2333
    <<"su1", "MSGB2", "MSGB2", "MSGB0", "MSGB1">>, \* 2334
    <<"add", "TMP0", "MSGC2", "KTMP">>, \* 2336
    <<"mov", "TMP2", "val[10]">>, \* 2337
    <<"su0", "MSGC2", "MSGC2", "MSGC3">>, \* 2338
    <<"h", "val[10]", "val[10]", "val[11]", "TMP0">>, \* 2339
    <<"h2", "val[11]", "val[11]", "TMP2", "TMP0">>, \* 2340
    <<"su1", "MSGC2", "MSGC2", "MSGC0", "MSGC1">>, \* 2341
    <<"k", "KTMP", 28>>, \* 2344
    <<"add", "TMP0", "MSGA3", "KTMP">>, \* 2345
    <<"mov", "TMP2", "val[6]">>, \* 2346
    <<"su0", "MSGA3", "MSGA3", "MSGA0">>, \* 2347
    <<"h", "val[6]", "val[6]", "val[7]", "TMP0">>, \* 2348
    <<"h2", "val[7]", "val[7]", "TMP2", "TMP0">>, \* 2349
    <<"su1", "MSGA3", "MSGA3", "MSGA1", "MSGA2">>, \* 2350
    <<"add", "TMP0", "MSGB3", "KTMP">>, \* 2352
    <<"mov", "TMP2", "val[8]">>, \* 2353
    <<"su0", "MSGB3", "MSGB3", "MSGB0">>, \* 2354
    <<"h", "val[8]", "val[8]", "val[9]", "TMP0">>, \* 2355
    <<"h2", "val[9]", "val[9]", "TMP2", "TMP0">>, \* 2356
    <<"su1", "MSGB3", "MSGB3", "MSGB1", "MSGB2">>, \* 2357
    <<"add", "TMP0", "MSGC3", "KTMP">>, \* 2359
    <<"mov", "TMP2", "val[10]">>, \* 2360
    <<"su0", "MSGC3", "MSGC3", "MSGC0">>, \* 2361
    <<"h", "val[10]", "val[10]", "val[11]", "TMP0">>, \* 2362
    <<"h2", "val[11]", "val[11]", "TMP2", "TMP0">>, \* 2363
    <<"su1", "MSGC3", "MSGC3", "MSGC1", "MSGC2">>, \* 2364
    <<"k", "KTMP", 32>>, \* 2367
    <<"add", "TMP0", "MSGA0", "KTMP">>, \* 2368
    <<"mov", "TMP2", "val[6]">>, \* 2369
    <<"su0", "MSGA0", "MSGA0", "MSGA1">>, \* 2370
    <<"h", "val[6]", "val[6]", "val[7]", "TMP0">>, \* 2371
    <<"h2", "val[7]", "val[7]", "TMP2", "TMP0">>, \* 2372
    <<"su1", "MSGA0", "MSGA0", "MSGA2", "MSGA3">>, \* 2373
    <<"add", "TMP0", "MSGB0", "KTMP">>, \* 2375
    <<"mov", "TMP2", "val[8]">>, \* 2376
    <<"su0", "MSGB0", "MSGB0", "MSGB1">>, \* 2377
    <<"h", "val[8]", "val[8]", "val[9]", "TMP0">>, \* 2378
    <<"h2", "val[9]", "val[9]", "TMP2", "TMP0">>, \* 2379
    <<"su1", "MSGB0", "MSGB0", "MSGB2", "MSGB3">>, \* 2380
    <<"add", "TMP0", "MSGC0", "KTMP">>, \* 2382
    <<"mov", "TMP2", "val[10]">>, \* 2383
    <<"su0", "MSGC0", "MSGC0", "MSGC1">>, \* 2384
    <<"h", "val[10]", "val[10]", "val[11]", "TMP0">>, \* 2385
    <<"h2", "val[11]", "val[11]", "TMP2", "TMP0">>, \* 2386
    <<"su1", "MSGC0", "MSGC0", "MSGC2", "MSGC3">>, \* 2387
    <<"k", "KTMP", 36>>, \* 2390
    <<"add", "TMP0", "MSGA1", "KTMP">>, \* 2391
    <<"mov", "TMP2", "val[6]">>, \* 2392
    <<"su0", "MSGA1", "MSGA1", "MSGA2">>, \* 2393
    <<"h", "val[6]", "val[6]", "val[7]", "TMP0">>, \* 2394
    <<"h2", "val[7]", "val[7]", "TMP2", "TMP0">>, \* 2395
    <<"su1", "MSGA1", "MSGA1", "MSGA3", "MSGA0">>, \* 2396
    <<"add", "TMP0", "MSGB1", "KTMP">>, \* 2398
    <<"mov", "TMP2", "val[8]">>, \* 2399
    <<"su0", "MSGB1", "MSGB1", "MSGB2">>, \* 2400
    <<"h", "val[8]", "val[8]", "val[9]", "TMP0">>, \* 2401
    <<"h2", "val[9]", "val[9]", "TMP2", "TMP0">>, \* 2402
    <<"su1", "MSGB1", "MSGB1", "MSGB3", "MSGB0">>, \* 2403
    <<"add", "TMP0", "MSGC1", "KTMP">>, \* 2405
    <<"mov", "TMP2", "val[10]">>, \* 2406
    <<"su0", "MSGC1", "MSGC1", "MSGC2">>, \* 2407
    <<"h", "val[10]", "val[10]", "val[11]", "TMP0">>, \* 2408
    <<"h2", "val[11]", "val[11]", "TMP2", "TMP0">>, \* 2409
    <<"su1", "MSGC1", "MSGC1", "MSGC3", "MSGC0">>, \* 2410
    <<"k", "KTMP", 40>>, \* 2413
    <<"add", "TMP0", "MSGA2", "KTMP">>, \* 2414
    <<"mov", "TMP2", "val[6]">>, \* 2415
    <<"su0", "MSGA2", "MSGA2", "MSGA3">>, \* 2416
    <<"h", "val[6]", "val[6]", "val[7]", "TMP0">>, \* 2417
    <<"h2", "val[7]", "val[7]", "TMP2", "TMP0">>, \* 2418
    <<"su1", "MSGA2", "MSGA2", "MSGA0", "MSGA1">>, \* 2419
    <<"add", "TMP0", "MSGB2", "KTMP">>, \* 2421
    <<"mov", "TMP2", "val[8]">>, \* 2422
    <<"su0", "MSGB2", "MSGB2", "MSGB3">>, \* 2423
    <<"h", "val[8]", "val[8]", "val[9]", "TMP0">>, \* 2424
    <<"h2", "val[9]", "val[9]", "TMP2", "TMP0">>, \* 2425
    <<"su1", "MSGB2", "MSGB2", "MSGB0", "MSGB1">>, \* 2426
    <<"add", "TMP0", "MSGC2", "KTMP">>, \* 2428
    <<"mov", "TMP2", "val[10]">>, \* 2429
    <<"su0", "MSGC2", "MSGC2", "MSGC3">>, \* 2430
    <<"h", "val[10]", "val[10]", "val[11]", "TMP0">>, \* 2431
    <<"h2", "val[11]", "val[11]", "TMP2", "TMP0">>, \* 2432
    <<"su1", "MSGC2", "MSGC2", "MSGC0", "MSGC1">>, \* 2433
    <<"k", "KTMP", 44>>, \* 2436
    <<"add", "TMP0", "MSGA3", "KTMP">>, \* 2437
    <<"mov", "TMP2", "val[6]">>, \* 2438
    <<"su0", "MSGA3", "MSGA3", "MSGA0">>, \* 2439
    <<"h", "val[6]", "val[6]", "val[7]", "TMP0">>, \* 2440
    <<"h2", "val[7]", "val[7]", "TMP2", "TMP0">>, \* 2441
    <<"su1", "MSGA3", "MSGA3", "MSGA1", "MSGA2">>, \* 2442
    <<"add", "TMP0", "MSGB3", "KTMP">>, \* 2444
    <<"mov", "TMP2", "val[8]">>, \* 2445
    <<"su0", "MSGB3", "MSGB3", "MSGB0">>, \* 2446
    <<"h", "val[8]", "val[8]", "val[9]", "TMP0">>, \* 2447
    <<"h2", "val[9]", "val[9]", "TMP2", "TMP0">>, \* 2448
    <<"su1", "MSGB3", "MSGB3", "MSGB1", "MSGB2">>, \* 2449
    <<"add", "TMP0", "MSGC3", "KTMP">>, \* 2451
    <<"mov", "TMP2", "val[10]">>, \* 2452
    <<"su0", "MSGC3", "MSGC3", "MSGC0">>, \* 2453
    <<"h", "val[10]", "val[10]", "val[11]", "TMP0">>, \* 2454
    <<"h2", "val[11]", "val[11]", "TMP2", "TMP0">>, \* 2455
    <<"su1", "MSGC3", "MSGC3", "MSGC1", "MSGC2">>, \* 2456
    <<"k", "KTMP", 48>>, \* 2459
    <<"add", "TMP0", "MSGA0", "KTMP">>, \* 2460
    <<"mov", "TMP2", "val[6]">>, \* 2461
    <<"h", "val[6]", "val[6]", "val[7]", "TMP0">>, \* 2462
    <<"h2", "val[7]", "val[7]", "TMP2", "TMP0">>, \* 2463
    <<"add", "TMP0", "MSGB0", "KTMP">>, \* 2465
    <<"mov", "TMP2", "val[8]">>, \* 2466
    <<"h", "val[8]", "val[8]", "val[9]", "TMP0">>, \* 2467
    <<"h2", "val[9]", "val[9]", "TMP2", "TMP0">>, \* 2468
    <<"add", "TMP0", "MSGC0", "KTMP">>, \* 2470
    <<"mov", "TMP2", "val[10]">>, \* 2471
    <<"h", "val[10]", "val[10]", "val[11]", "TMP0">>, \* 2472
    <<"h2", "val[11]", "val[11]", "TMP2", "TMP0">>, \* 2473
    <<"k", "KTMP", 52>>, \* 2476
    <<"add", "TMP0", "MSGA1", "KTMP">>, \* 2477
    <<"mov", "TMP2", "val[6]">>, \* 2478
    <<"h", "val[6]", "val[6]", "val[7]", "TMP0">>, \* 2479
    <<"h2", "val[7]", "val[7]", "TMP2", "TMP0">>, \* 2480
    <<"add", "TMP0", "MSGB1", "KTMP">>, \* 2482
    <<"mov", "TMP2", "val[8]">>, \* 2483
    <<"h", "val[8]", "val[8]", "val[9]", "TMP0">>, \* 2484
    <<"h2", "val[9]", "val[9]", "TMP2", "TMP0">>, \* 2485
    <<"add", "TMP0", "MSGC1", "KTMP">>, \* 2487
    <<"mov", "TMP2", "val[10]">>, \* 2488
    <<"h", "val[10]", "val[10]", "val[11]", "TMP0">>, \* 2489
    <<"h2", "val[11]", "val[11]", "TMP2", "TMP0">>, \* 2490
    <<"k", "KTMP", 56>>, \* 2493
    <<"add", "TMP0", "MSGA2", "KTMP">>, \* 2494
    <<"mov", "TMP2", "val[6]">>, \* 2495
    <<"h", "val[6]", "val[6]", "val[7]", "TMP0">>, \* 2496
    <<"h2", "val[7]", "val[7]", "TMP2", "TMP0">>, \* 2497
    <<"add", "TMP0", "MSGB2", "KTMP">>, \* 2499
    <<"mov", "TMP2", "val[8]">>, \* 2500
    <<"h", "val[8]", "val[8]", "val[9]", "TMP0">>, \* 2501
    <<"h2", "val[9]", "val[9]", "TMP2", "TMP0">>, \* 2502
    <<"add", "TMP0", "MSGC2", "KTMP">>, \* 2504
    <<"mov", "TMP2", "val[10]">>, \* 2505
    <<"h", "val[10]", "val[10]", "val[11]", "TMP0">>, \* 2506
    <<"h2", "val[11]", "val[11]", "TMP2", "TMP0">>, \* 2507
    <<"k", "KTMP", 60>>, \* 2510
    <<"add", "TMP0", "MSGA3", "KTMP">>, \* 2511
    <<"mov", "TMP2", "val[6]">>, \* 2512
    <<"h", "val[6]", "val[6]", "val[7]", "TMP0">>, \* 2513
    <<"h2", "val[7]", "val[7]", "TMP2", "TMP0">>, \* 2514
    <<"add", "TMP0", "MSGB3", "KTMP">>, \* 2516
    <<"mov", "TMP2", "val[8]">>, \* 2517
    <<"h", "val[8]", "val[8]", "val[9]", "TMP0">>, \* 2518
    <<"h2", "val[9]", "val[9]", "TMP2", "TMP0">>, \* 2519
    <<"add", "TMP0", "MSGC3", "KTMP">>, \* 2521
    <<"mov", "TMP2", "val[10]">>, \* 2522
    <<"h", "val[10]", "val[10]", "val[11]", "TMP0">>, \* 2523
    <<"h2", "val[11]", "val[11]", "TMP2", "TMP0">>, \* 2524
    <<"add", "val[6]", "val[6]", "SHA256INIT0">>, \* 2527
    <<"add", "val[7]", "val[7]", "SHA256INIT1">>, \* 2528
    <<"add", "val[8]", "val[8]", "SHA256INIT0">>, \* 2530
    <<"add", "val[9]", "val[9]", "SHA256INIT1">>, \* 2531
    <<"add", "val[10]", "val[10]", "SHA256INIT0">>, \* 2533
    <<"add", "val[11]", "val[11]", "SHA256INIT1">> \* 2534
    >>

BleMiner3Way ==
    BleMiner3Way_Head \o BleMiner3Way_Rounds9to12 \o BleMiner3Way_Rounds13to16
        \o BleMiner3Way_Tail

\* BleMiner4Way, before its loop: the four lanes' states and messages
BleMiner4Way_Load ==
    <<
    <<"mov", "STATEA0", "val[0]">>, \* 2552
    <<"mov", "STATEA1", "val[1]">>, \* 2553
    <<"mov", "STATEB0", "STATEA0">>, \* 2554
    <<"mov", "STATEB1", "STATEA1">>, \* 2555
    <<"mov", "STATEC0", "STATEA0">>, \* 2556
    <<"mov", "STATEC1", "STATEA1">>, \* 2557
    <<"mov", "STATED0", "STATEA0">>, \* 2558
    <<"mov", "STATED1", "STATEA1">>, \* 2559
    <<"mov", "MSGA0", "val[2]">>, \* 2562
    <<"mov", "MSGA1", "val[3]">>, \* 2563
    <<"rev", "MSGA2", "val[4]">>, \* 2566
    <<"mov", "MSGA3", "val[5]">>, \* 2567
    <<"inc", "val[4]", 3>>, \* 2570
    <<"mov", "MSGB0", "MSGA0">>, \* 2573
    <<"mov", "MSGB1", "MSGA1">>, \* 2574
    <<"rev", "MSGB2", "val[4]">>, \* 2576
    <<"mov", "MSGB3", "MSGA3">>, \* 2577
    <<"inc", "val[4]", 3>>, \* 2580
    <<"mov", "MSGC0", "MSGA0">>, \* 2582
    <<"mov", "MSGC1", "MSGA1">>, \* 2583
    <<"rev", "MSGC2", "val[4]">>, \* 2585
    <<"mov", "MSGC3", "MSGA3">>, \* 2586
    <<"inc", "val[4]", 3>>, \* 2589
    <<"mov", "MSGD0", "MSGA0">>, \* 2591
    <<"mov", "MSGD1", "MSGA1">>, \* 2592
    <<"rev", "MSGD2", "val[4]">>, \* 2594
    <<"mov", "MSGD3", "MSGA3">>, \* 2595
    <<"inc", "val[4]", 3>> \* 2598
    >>

\* BleMiner4Way, the body of for(i < 2): 64 rounds on each lane
BleMiner4Way_Rounds ==
    <<
    <<"k", "KTMP", 0>>, \* 2602
    <<"add", "TMP0", "MSGA0", "KTMP">>, \* 2603
    <<"mov", "TMP2", "STATEA0">>, \* 2604
    <<"su0", "MSGA0", "MSGA0", "MSGA1">>, \* 2605
    <<"h", "STATEA0", "STATEA0", "STATEA1", "TMP0">>, \* 2606
    <<"h2", "STATEA1", "STATEA1", "TMP2", "TMP0">>, \* 2607
    <<"su1", "MSGA0", "MSGA0", "MSGA2", "MSGA3">>, \* 2608
    <<"add", "TMP0", "MSGB0", "KTMP">>, \* 2610
    <<"mov", "TMP2", "STATEB0">>, \* 2611
    <<"su0", "MSGB0", "MSGB0", "MSGB1">>, \* 2612
    <<"h", "STATEB0", "STATEB0", "STATEB1", "TMP0">>, \* 2613
    <<"h2", "STATEB1", "STATEB1", "TMP2", "TMP0">>, \* 2614
    <<"su1", "MSGB0", "MSGB0", "MSGB2", "MSGB3">>, \* 2615
    <<"add", "TMP0", "MSGC0", "KTMP">>, \* 2617
    <<"mov", "TMP2", "STATEC0">>, \* 2618
    <<"su0", "MSGC0", "MSGC0", "MSGC1">>, \* 2619
    <<"h", "STATEC0", "STATEC0", "STATEC1", "TMP0">>, \* 2620
    <<"h2", "STATEC1", "STATEC1", "TMP2", "TMP0">>, \* 2621
    <<"su1", "MSGC0", "MSGC0", "MSGC2", "MSGC3">>, \* 2622
    <<"add", "TMP0", "MSGD0", "KTMP">>, \* 2624
    <<"mov", "TMP2", "STATED0">>, \* 2625
    <<"su0", "MSGD0", "MSGD0", "MSGD1">>, \* 2626
    <<"h", "STATED0", "STATED0", "STATED1", "TMP0">>, \* 2627
    <<"h2", "STATED1", "STATED1", "TMP2", "TMP0">>, \* 2628
    <<"su1", "MSGD0", "MSGD0", "MSGD2", "MSGD3">>, \* 2629
    <<"k", "KTMP", 4>>, \* 2632
    <<"add", "TMP0", "MSGA1", "KTMP">>, \* 2633
    <<"mov", "TMP2", "STATEA0">>, \* 2634
    <<"su0", "MSGA1", "MSGA1", "MSGA2">>, \* 2635
    <<"h", "STATEA0", "STATEA0", "STATEA1", "TMP0">>, \* 2636
    <<"h2", "STATEA1", "STATEA1", "TMP2", "TMP0">>, \* 2637
    <<"su1", "MSGA1", "MSGA1", "MSGA3", "MSGA0">>, \* 2638
    <<"add", "TMP0", "MSGB1", "KTMP">>, \* 2640
    <<"mov", "TMP2", "STATEB0">>, \* 2641
    <<"su0", "MSGB1", "MSGB1", "MSGB2">>, \* 2642
    <<"h", "STATEB0", "STATEB0", "STATEB1", "TMP0">>, \* 2643
    <<"h2", "STATEB1", "STATEB1", "TMP2", "TMP0">>, \* 2644
    <<"su1", "MSGB1", "MSGB1", "MSGB3", "MSGB0">>, \* 2645
    <<"add", "TMP0", "MSGC1", "KTMP">>, \* 2647
    <<"mov", "TMP2", "STATEC0">>, \* 2648
    <<"su0", "MSGC1", "MSGC1", "MSGC2">>, \* 2649
    <<"h", "STATEC0", "STATEC0", "STATEC1", "TMP0">>, \* 2650
    <<"h2", "STATEC1", "STATEC1", "TMP2", "TMP0">>, \* 2651
    <<"su1", "MSGC1", "MSGC1", "MSGC3", "MSGC0">>, \* 2652
    <<"add", "TMP0", "MSGD1", "KTMP">>, \* 2654
    <<"mov", "TMP2", "STATED0">>, \* 2655
    <<"su0", "MSGD1", "MSGD1", "MSGD2">>, \* 2656
    <<"h", "STATED0", "STATED0", "STATED1", "TMP0">>, \* 2657
    <<"h2", "STATED1", "STATED1", "TMP2", "TMP0">>, \* 2658
    <<"su1", "MSGD1", "MSGD1", "MSGD3", "MSGD0">>, \* 2659
    <<"k", "KTMP", 8>>, \* 2662
    <<"add", "TMP0", "MSGA2", "KTMP">>, \* 2663
    <<"mov", "TMP2", "STATEA0">>, \* 2664
    <<"su0", "MSGA2", "MSGA2", "MSGA3">>, \* 2665
    <<"h", "STATEA0", "STATEA0", "STATEA1", "TMP0">>, \* 2666
    <<"h2", "STATEA1", "STATEA1", "TMP2", "TMP0">>, \* 2667
    <<"su1", "MSGA2", "MSGA2", "MSGA0", "MSGA1">>, \* 2668
    <<"add", "TMP0", "MSGB2", "KTMP">>, \* 2670
    <<"mov", "TMP2", "STATEB0">>, \* 2671
    <<"su0", "MSGB2", "MSGB2", "MSGB3">>, \* 2672
    <<"h", "STATEB0", "STATEB0", "STATEB1", "TMP0">>, \* 2673
    <<"h2", "STATEB1", "STATEB1", "TMP2", "TMP0">>, \* 2674
    <<"su1", "MSGB2", "MSGB2", "MSGB0", "MSGB1">>, \* 2675
    <<"add", "TMP0", "MSGC2", "KTMP">>, \* 2677
    <<"mov", "TMP2", "STATEC0">>, \* 2678
    <<"su0", "MSGC2", "MSGC2", "MSGC3">>, \* 2679
    <<"h", "STATEC0", "STATEC0", "STATEC1", "TMP0">>, \* 2680
    <<"h2", "STATEC1", "STATEC1", "TMP2", "TMP0">>, \* 2681
    <<"su1", "MSGC2", "MSGC2", "MSGC0", "MSGC1">>, \* 2682
    <<"add", "TMP0", "MSGD2", "KTMP">>, \* 2684
    <<"mov", "TMP2", "STATED0">>, \* 2685
    <<"su0", "MSGD2", "MSGD2", "MSGD3">>, \* 2686
    <<"h", "STATED0", "STATED0", "STATED1", "TMP0">>, \* 2687
    <<"h2", "STATED1", "STATED1", "TMP2", "TMP0">>, \* 2688
    <<"su1", "MSGD2", "MSGD2", "MSGD0", "MSGD1">>, \* 2689
    <<"k", "KTMP", 12>>, \* 2692
    <<"add", "TMP0", "MSGA3", "KTMP">>, \* 2694
    <<"mov", "TMP2", "STATEA0">>, \* 2695
    <<"su0", "MSGA3", "MSGA3", "MSGA0">>, \* 2696
    <<"h", "STATEA0", "STATEA0", "STATEA1", "TMP0">>, \* 2697
    <<"h2", "STATEA1", "STATEA1", "TMP2", "TMP0">>, \* 2698
    <<"su1", "MSGA3", "MSGA3", "MSGA1", "MSGA2">>, \* 2699
    <<"add", "TMP0", "MSGB3", "KTMP">>, \* 2701
    <<"mov", "TMP2", "STATEB0">>, \* 2702
    <<"su0", "MSGB3", "MSGB3", "MSGB0">>, \* 2703
    <<"h", "STATEB0", "STATEB0", "STATEB1", "TMP0">>, \* 2704
    <<"h2", "STATEB1", "STATEB1", "TMP2", "TMP0">>, \* 2705
    <<"su1", "MSGB3", "MSGB3", "MSGB1", "MSGB2">>, \* 2706
    <<"add", "TMP0", "MSGC3", "KTMP">>, \* 2708
    <<"mov", "TMP2", "STATEC0">>, \* 2709
    <<"su0", "MSGC3", "MSGC3", "MSGC0">>, \* 2710
    <<"h", "STATEC0", "STATEC0", "STATEC1", "TMP0">>, \* 2711
    <<"h2", "STATEC1", "STATEC1", "TMP2", "TMP0">>, \* 2712
    <<"su1", "MSGC3", "MSGC3", "MSGC1", "MSGC2">>, \* 2713
    <<"add", "TMP0", "MSGD3", "KTMP">>, \* 2715
    <<"mov", "TMP2", "STATED0">>, \* 2716
    <<"su0", "MSGD3", "MSGD3", "MSGD0">>, \* 2717
    <<"h", "STATED0", "STATED0", "STATED1", "TMP0">>, \* 2718
    <<"h2", "STATED1", "STATED1", "TMP2", "TMP0">>, \* 2719
    <<"su1", "MSGD3", "MSGD3", "MSGD1", "MSGD2">>, \* 2720
    <<"k", "KTMP", 16>>, \* 2723
    <<"add", "TMP0", "MSGA0", "KTMP">>, \* 2724
    <<"mov", "TMP2", "STATEA0">>, \* 2725
    <<"su0", "MSGA0", "MSGA0", "MSGA1">>, \* 2726
    <<"h", "STATEA0", "STATEA0", "STATEA1", "TMP0">>, \* 2727
    <<"h2", "STATEA1", "STATEA1", "TMP2", "TMP0">>, \* 2728
    <<"su1", "MSGA0", "MSGA0", "MSGA2", "MSGA3">>, \* 2729
    <<"add", "TMP0", "MSGB0", "KTMP">>, \* 2731
    <<"mov", "TMP2", "STATEB0">>, \* 2732
    <<"su0", "MSGB0", "MSGB0", "MSGB1">>, \* 2733
    <<"h", "STATEB0", "STATEB0", "STATEB1", "TMP0">>, \* 2734
    <<"h2", "STATEB1", "STATEB1", "TMP2", "TMP0">>, \* 2735
    <<"su1", "MSGB0", "MSGB0", "MSGB2", "MSGB3">>, \* 2736
    <<"add", "TMP0", "MSGC0", "KTMP">>, \* 2738
    <<"mov", "TMP2", "STATEC0">>, \* 2739
    <<"su0", "MSGC0", "MSGC0", "MSGC1">>, \* 2740
    <<"h", "STATEC0", "STATEC0", "STATEC1", "TMP0">>, \* 2741
    <<"h2", "STATEC1", "STATEC1", "TMP2", "TMP0">>, \* 2742
    <<"su1", "MSGC0", "MSGC0", "MSGC2", "MSGC3">>, \* 2743
    <<"add", "TMP0", "MSGD0", "KTMP">>, \* 2745
    <<"mov", "TMP2", "STATED0">>, \* 2746
    <<"su0", "MSGD0", "MSGD0", "MSGD1">>, \* 2747
    <<"h", "STATED0", "STATED0", "STATED1", "TMP0">>, \* 2748
    <<"h2", "STATED1", "STATED1", "TMP2", "TMP0">>, \* 2749
    <<"su1", "MSGD0", "MSGD0", "MSGD2", "MSGD3">>, \* 2750
    <<"k", "KTMP", 20>>, \* 2753
    <<"add", "TMP0", "MSGA1", "KTMP">>, \* 2754
    <<"mov", "TMP2", "STATEA0">>, \* 2755
    <<"su0", "MSGA1", "MSGA1", "MSGA2">>, \* 2756
    <<"h", "STATEA0", "STATEA0", "STATEA1", "TMP0">>, \* 2757
    <<"h2", "STATEA1", "STATEA1", "TMP2", "TMP0">>, \* 2758
    <<"su1", "MSGA1", "MSGA1", "MSGA3", "MSGA0">>, \* 2759
    <<"add", "TMP0", "MSGB1", "KTMP">>, \* 2761
    <<"mov", "TMP2", "STATEB0">>, \* 2762
    <<"su0", "MSGB1", "MSGB1", "MSGB2">>, \* 2763
    <<"h", "STATEB0", "STATEB0", "STATEB1", "TMP0">>, \* 2764
    <<"h2", "STATEB1", "STATEB1", "TMP2", "TMP0">>, \* 2765
    <<"su1", "MSGB1", "MSGB1", "MSGB3", "MSGB0">>, \* 2766
    <<"add", "TMP0", "MSGC1", "KTMP">>, \* 2768
    <<"mov", "TMP2", "STATEC0">>, \* 2769
    <<"su0", "MSGC1", "MSGC1", "MSGC2">>, \* 2770
    <<"h", "STATEC0", "STATEC0", "STATEC1", "TMP0">>, \* 2771
    <<"h2", "STATEC1", "STATEC1", "TMP2", "TMP0">>, \* 2772
    <<"su1", "MSGC1", "MSGC1", "MSGC3", "MSGC0">>, \* 2773
    <<"add", "TMP0", "MSGD1", "KTMP">>, \* 2775
    <<"mov", "TMP2", "STATED0">>, \* 2776
    <<"su0", "MSGD1", "MSGD1", "MSGD2">>, \* 2777
    <<"h", "STATED0", "STATED0", "STATED1", "TMP0">>, \* 2778
    <<"h2", "STATED1", "STATED1", "TMP2", "TMP0">>, \* 2779
    <<"su1", "MSGD1", "MSGD1", "MSGD3", "MSGD0">>, \* 2780
    <<"k", "KTMP", 24>>, \* 2783
    <<"add", "TMP0", "MSGA2", "KTMP">>, \* 2784
    <<"mov", "TMP2", "STATEA0">>, \* 2785
    <<"su0", "MSGA2", "MSGA2", "MSGA3">>, \* 2786
    <<"h", "STATEA0", "STATEA0", "STATEA1", "TMP0">>, \* 2787
    <<"h2", "STATEA1", "STATEA1", "TMP2", "TMP0">>, \* 2788
    <<"su1", "MSGA2", "MSGA2", "MSGA0", "MSGA1">>, \* 2789
    <<"add", "TMP0", "MSGB2", "KTMP">>, \* 2791
    <<"mov", "TMP2", "STATEB0">>, \* 2792
    <<"su0", "MSGB2", "MSGB2", "MSGB3">>, \* 2793
    <<"h", "STATEB0", "STATEB0", "STATEB1", "TMP0">>, \* 2794
    <<"h2", "STATEB1", "STATEB1", "TMP2", "TMP0">>, \* 2795
    <<"su1", "MSGB2", "MSGB2", "MSGB0", "MSGB1">>, \* 2796
    <<"add", "TMP0", "MSGC2", "KTMP">>, \* 2798
    <<"mov", "TMP2", "STATEC0">>, \* 2799
    <<"su0", "MSGC2", "MSGC2", "MSGC3">>, \* 2800
    <<"h", "STATEC0", "STATEC0", "STATEC1", "TMP0">>, \* 2801
    <<"h2", "STATEC1", "STATEC1", "TMP2", "TMP0">>, \* 2802
    <<"su1", "MSGC2", "MSGC2", "MSGC0", "MSGC1">>, \* 2803
    <<"add", "TMP0", "MSGD2", "KTMP">>, \* 2805
    <<"mov", "TMP2", "STATED0">>, \* 2806
    <<"su0", "MSGD2", "MSGD2", "MSGD3">>, \* 2807
    <<"h", "STATED0", "STATED0", "STATED1", "TMP0">>, \* 2808
    <<"h2", "STATED1", "STATED1", "TMP2", "TMP0">>, \* 2809
    <<"su1", "MSGD2", "MSGD2", "MSGD0", "MSGD1">>, \* 2810
    <<"k", "KTMP", 28>>, \* 2813
    <<"add", "TMP0", "MSGA3", "KTMP">>, \* 2814
    <<"mov", "TMP2", "STATEA0">>, \* 2815
    <<"su0", "MSGA3", "MSGA3", "MSGA0">>, \* 2816
    <<"h", "STATEA0", "STATEA0", "STATEA1", "TMP0">>, \* 2817
    <<"h2", "STATEA1", "STATEA1", "TMP2", "TMP0">>, \* 2818
    <<"su1", "MSGA3", "MSGA3", "MSGA1", "MSGA2">>, \* 2819
    <<"add", "TMP0", "MSGB3", "KTMP">>, \* 2821
    <<"mov", "TMP2", "STATEB0">>, \* 2822
    <<"su0", "MSGB3", "MSGB3", "MSGB0">>, \* 2823
    <<"h", "STATEB0", "STATEB0", "STATEB1", "TMP0">>, \* 2824
    <<"h2", "STATEB1", "STATEB1", "TMP2", "TMP0">>, \* 2825
    <<"su1", "MSGB3", "MSGB3", "MSGB1", "MSGB2">>, \* 2826
    <<"add", "TMP0", "MSGC3", "KTMP">>, \* 2828
    <<"mov", "TMP2", "STATEC0">>, \* 2829
    <<"su0", "MSGC3", "MSGC3", "MSGC0">>, \* 2830
    <<"h", "STATEC0", "STATEC0", "STATEC1", "TMP0">>, \* 2831
    <<"h2", "STATEC1", "STATEC1", "TMP2", "TMP0">>, \* 2832
    <<"su1", "MSGC3", "MSGC3", "MSGC1", "MSGC2">>, \* 2833
    <<"add", "TMP0", "MSGD3", "KTMP">>, \* 2835
    <<"mov", "TMP2", "STATED0">>, \* 2836
    <<"su0", "MSGD3", "MSGD3", "MSGD0">>, \* 2837
    <<"h", "STATED0", "STATED0", "STATED1", "TMP0">>, \* 2838
    <<"h2", "STATED1", "STATED1", "TMP2", "TMP0">>, \* 2839
    <<"su1", "MSGD3", "MSGD3", "MSGD1", "MSGD2">>, \* 2840
    <<"k", "KTMP", 32>>, \* 2843
    <<"add", "TMP0", "MSGA0", "KTMP">>, \* 2844
    <<"mov", "TMP2", "STATEA0">>, \* 2845
    <<"su0", "MSGA0", "MSGA0", "MSGA1">>, \* 2846
    <<"h", "STATEA0", "STATEA0", "STATEA1", "TMP0">>, \* 2847
    <<"h2", "STATEA1", "STATEA1", "TMP2", "TMP0">>, \* 2848
    <<"su1", "MSGA0", "MSGA0", "MSGA2", "MSGA3">>, \* 2849
    <<"add", "TMP0", "MSGB0", "KTMP">>, \* 2851
    <<"mov", "TMP2", "STATEB0">>, \* 2852
    <<"su0", "MSGB0", "MSGB0", "MSGB1">>, \* 2853
    <<"h", "STATEB0", "STATEB0", "STATEB1", "TMP0">>, \* 2854
    <<"h2", "STATEB1", "STATEB1", "TMP2", "TMP0">>, \* 2855
    <<"su1", "MSGB0", "MSGB0", "MSGB2", "MSGB3">>, \* 2856
    <<"add", "TMP0", "MSGC0", "KTMP">>, \* 2858
    <<"mov", "TMP2", "STATEC0">>, \* 2859
    <<"su0", "MSGC0", "MSGC0", "MSGC1">>, \* 2860
    <<"h", "STATEC0", "STATEC0", "STATEC1", "TMP0">>, \* 2861
    <<"h2", "STATEC1", "STATEC1", "TMP2", "TMP0">>, \* 2862
    <<"su1", "MSGC0", "MSGC0", "MSGC2", "MSGC3">>, \* 2863
    <<"add", "TMP0", "MSGD0", "KTMP">>, \* 2865
    <<"mov", "TMP2", "STATED0">>, \* 2866
    <<"su0", "MSGD0", "MSGD0", "MSGD1">>, \* 2867
    <<"h", "STATED0", "STATED0", "STATED1", "TMP0">>, \* 2868
    <<"h2", "STATED1", "STATED1", "TMP2", "TMP0">>, \* 2869
    <<"su1", "MSGD0", "MSGD0", "MSGD2", "MSGD3">>, \* 2870
    <<"k", "KTMP", 36>>, \* 2873
    <<"add", "TMP0", "MSGA1", "KTMP">>, \* 2874
    <<"mov", "TMP2", "STATEA0">>, \* 2875
    <<"su0", "MSGA1", "MSGA1", "MSGA2">>, \* 2876
    <<"h", "STATEA0", "STATEA0", "STATEA1", "TMP0">>, \* 2877
    <<"h2", "STATEA1", "STATEA1", "TMP2", "TMP0">>, \* 2878
    <<"su1", "MSGA1", "MSGA1", "MSGA3", "MSGA0">>, \* 2879
    <<"add", "TMP0", "MSGB1", "KTMP">>, \* 2881
    <<"mov", "TMP2", "STATEB0">>, \* 2882
    <<"su0", "MSGB1", "MSGB1", "MSGB2">>, \* 2883
    <<"h", "STATEB0", "STATEB0", "STATEB1", "TMP0">>, \* 2884
    <<"h2", "STATEB1", "STATEB1", "TMP2", "TMP0">>, \* 2885
    <<"su1", "MSGB1", "MSGB1", "MSGB3", "MSGB0">>, \* 2886
    <<"add", "TMP0", "MSGC1", "KTMP">>, \* 2888
    <<"mov", "TMP2", "STATEC0">>, \* 2889
    <<"su0", "MSGC1", "MSGC1", "MSGC2">>, \* 2890
    <<"h", "STATEC0", "STATEC0", "STATEC1", "TMP0">>, \* 2891
    <<"h2", "STATEC1", "STATEC1", "TMP2", "TMP0">>, \* 2892
    <<"su1", "MSGC1", "MSGC1", "MSGC3", "MSGC0">>, \* 2893
    <<"add", "TMP0", "MSGD1", "KTMP">>, \* 2895
    <<"mov", "TMP2", "STATED0">>, \* 2896
    <<"su0", "MSGD1", "MSGD1", "MSGD2">>, \* 2897
    <<"h", "STATED0", "STATED0", "STATED1", "TMP0">>, \* 2898
    <<"h2", "STATED1", "STATED1", "TMP2", "TMP0">>, \* 2899
    <<"su1", "MSGD1", "MSGD1", "MSGD3", "MSGD0">>, \* 2900
    <<"k", "KTMP", 40>>, \* 2903
    <<"add", "TMP0", "MSGA2", "KTMP">>, \* 2904
    <<"mov", "TMP2", "STATEA0">>, \* 2905
    <<"su0", "MSGA2", "MSGA2", "MSGA3">>, \* 2906
    <<"h", "STATEA0", "STATEA0", "STATEA1", "TMP0">>, \* 2907
    <<"h2", "STATEA1", "STATEA1", "TMP2", "TMP0">>, \* 2908
    <<"su1", "MSGA2", "MSGA2", "MSGA0", "MSGA1">>, \* 2909
    <<"add", "TMP0", "MSGB2", "KTMP">>, \* 2911
    <<"mov", "TMP2", "STATEB0">>, \* 2912
    <<"su0", "MSGB2", "MSGB2", "MSGB3">>, \* 2913
    <<"h", "STATEB0", "STATEB0", "STATEB1", "TMP0">>, \* 2914
    <<"h2", "STATEB1", "STATEB1", "TMP2", "TMP0">>, \* 2915
    <<"su1", "MSGB2", "MSGB2", "MSGB0", "MSGB1">>, \* 2916
    <<"add", "TMP0", "MSGC2", "KTMP">>, \* 2918
    <<"mov", "TMP2", "STATEC0">>, \* 2919
    <<"su0", "MSGC2", "MSGC2", "MSGC3">>, \* 2920
    <<"h", "STATEC0", "STATEC0", "STATEC1", "TMP0">>, \* 2921
    <<"h2", "STATEC1", "STATEC1", "TMP2", "TMP0">>, \* 2922
    <<"su1", "MSGC2", "MSGC2", "MSGC0", "MSGC1">>, \* 2923
    <<"add", "TMP0", "MSGD2", "KTMP">>, \* 2925
    <<"mov", "TMP2", "STATED0">>, \* 2926
    <<"su0", "MSGD2", "MSGD2", "MSGD3">>, \* 2927
    <<"h", "STATED0", "STATED0", "STATED1", "TMP0">>, \* 2928
    <<"h2", "STATED1", "STATED1", "TMP2", "TMP0">>, \* 2929
    <<"su1", "MSGD2", "MSGD2", "MSGD0", "MSGD1">>, \* 2930
    <<"k", "KTMP", 44>>, \* 2933
    <<"add", "TMP0", "MSGA3", "KTMP">>, \* 2934
    <<"mov", "TMP2", "STATEA0">>, \* 2935
    <<"su0", "MSGA3", "MSGA3", "MSGA0">>, \* 2936
    <<"h", "STATEA0", "STATEA0", "STATEA1", "TMP0">>, \* 2937
    <<"h2", "STATEA1", "STATEA1", "TMP2", "TMP0">>, \* 2938
    <<"su1", "MSGA3", "MSGA3", "MSGA1", "MSGA2">>, \* 2939
    <<"add", "TMP0", "MSGB3", "KTMP">>, \* 2941
    <<"mov", "TMP2", "STATEB0">>, \* 2942
    <<"su0", "MSGB3", "MSGB3", "MSGB0">>, \* 2943
    <<"h", "STATEB0", "STATEB0", "STATEB1", "TMP0">>, \* 2944
    <<"h2", "STATEB1", "STATEB1", "TMP2", "TMP0">>, \* 2945
    <<"su1", "MSGB3", "MSGB3", "MSGB1", "MSGB2">>, \* 2946
    <<"add", "TMP0", "MSGC3", "KTMP">>, \* 2948
    <<"mov", "TMP2", "STATEC0">>, \* 2949
    <<"su0", "MSGC3", "MSGC3", "MSGC0">>, \* 2950
    <<"h", "STATEC0", "STATEC0", "STATEC1", "TMP0">>, \* 2951
    <<"h2", "STATEC1", "STATEC1", "TMP2", "TMP0">>, \* 2952
    <<"su1", "MSGC3", "MSGC3", "MSGC1", "MSGC2">>, \* 2953
    <<"add", "TMP0", "MSGD3", "KTMP">>, \* 2955
    <<"mov", "TMP2", "STATED0">>, \* 2956
    <<"su0", "MSGD3", "MSGD3", "MSGD0">>, \* 2957
    <<"h", "STATED0", "STATED0", "STATED1", "TMP0">>, \* 2958
    <<"h2", "STATED1", "STATED1", "TMP2", "TMP0">>, \* 2959
    <<"su1", "MSGD3", "MSGD3", "MSGD1", "MSGD2">>, \* 2960
    <<"k", "KTMP", 48>>, \* 2963
    <<"add", "TMP0", "MSGA0", "KTMP">>, \* 2964
    <<"mov", "TMP2", "STATEA0">>, \* 2965
    <<"h", "STATEA0", "STATEA0", "STATEA1", "TMP0">>, \* 2966
    <<"h2", "STATEA1", "STATEA1", "TMP2", "TMP0">>, \* 2967
    <<"add", "TMP0", "MSGB0", "KTMP">>, \* 2969
    <<"mov", "TMP2", "STATEB0">>, \* 2970
    <<"h", "STATEB0", "STATEB0", "STATEB1", "TMP0">>, \* 2971
    <<"h2", "STATEB1", "STATEB1", "TMP2", "TMP0">>, \* 2972
    <<"add", "TMP0", "MSGC0", "KTMP">>, \* 2974
    <<"mov", "TMP2", "STATEC0">>, \* 2975
    <<"h", "STATEC0", "STATEC0", "STATEC1", "TMP0">>, \* 2976
    <<"h2", "STATEC1", "STATEC1", "TMP2", "TMP0">>, \* 2977
    <<"add", "TMP0", "MSGD0", "KTMP">>, \* 2979
    <<"mov", "TMP2", "STATED0">>, \* 2980
    <<"h", "STATED0", "STATED0", "STATED1", "TMP0">>, \* 2981
    <<"h2", "STATED1", "STATED1", "TMP2", "TMP0">>, \* 2982
    <<"k", "KTMP", 52>>, \* 2985
    <<"add", "TMP0", "MSGA1", "KTMP">>, \* 2986
    <<"mov", "TMP2", "STATEA0">>, \* 2987
    <<"h", "STATEA0", "STATEA0", "STATEA1", "TMP0">>, \* 2988
    <<"h2", "STATEA1", "STATEA1", "TMP2", "TMP0">>, \* 2989
    <<"add", "TMP0", "MSGB1", "KTMP">>, \* 2991
    <<"mov", "TMP2", "STATEB0">>, \* 2992
    <<"h", "STATEB0", "STATEB0", "STATEB1", "TMP0">>, \* 2993
    <<"h2", "STATEB1", "STATEB1", "TMP2", "TMP0">>, \* 2994
    <<"add", "TMP0", "MSGC1", "KTMP">>, \* 2996
    <<"mov", "TMP2", "STATEC0">>, \* 2997
    <<"h", "STATEC0", "STATEC0", "STATEC1", "TMP0">>, \* 2998
    <<"h2", "STATEC1", "STATEC1", "TMP2", "TMP0">>, \* 2999
    <<"add", "TMP0", "MSGD1", "KTMP">>, \* 3001
    <<"mov", "TMP2", "STATED0">>, \* 3002
    <<"h", "STATED0", "STATED0", "STATED1", "TMP0">>, \* 3003
    <<"h2", "STATED1", "STATED1", "TMP2", "TMP0">>, \* 3004
    <<"k", "KTMP", 56>>, \* 3007
    <<"add", "TMP0", "MSGA2", "KTMP">>, \* 3008
    <<"mov", "TMP2", "STATEA0">>, \* 3009
    <<"h", "STATEA0", "STATEA0", "STATEA1", "TMP0">>, \* 3010
    <<"h2", "STATEA1", "STATEA1", "TMP2", "TMP0">>, \* 3011
    <<"add", "TMP0", "MSGB2", "KTMP">>, \* 3013
    <<"mov", "TMP2", "STATEB0">>, \* 3014
    <<"h", "STATEB0", "STATEB0", "STATEB1", "TMP0">>, \* 3015
    <<"h2", "STATEB1", "STATEB1", "TMP2", "TMP0">>, \* 3016
    <<"add", "TMP0", "MSGC2", "KTMP">>, \* 3018
    <<"mov", "TMP2", "STATEC0">>, \* 3019
    <<"h", "STATEC0", "STATEC0", "STATEC1", "TMP0">>, \* 3020
    <<"h2", "STATEC1", "STATEC1", "TMP2", "TMP0">>, \* 3021
    <<"add", "TMP0", "MSGD2", "KTMP">>, \* 3023
    <<"mov", "TMP2", "STATED0">>, \* 3024
    <<"h", "STATED0", "STATED0", "STATED1", "TMP0">>, \* 3025
    <<"h2", "STATED1", "STATED1", "TMP2", "TMP0">>, \* 3026
    <<"k", "KTMP", 60>>, \* 3029
    <<"add", "TMP0", "MSGA3", "KTMP">>, \* 3030
    <<"mov", "TMP2", "STATEA0">>, \* 3031
    <<"h", "STATEA0", "STATEA0", "STATEA1", "TMP0">>, \* 3032
    <<"h2", "STATEA1", "STATEA1", "TMP2", "TMP0">>, \* 3033
    <<"add", "TMP0", "MSGB3", "KTMP">>, \* 3035
    <<"mov", "TMP2", "STATEB0">>, \* 3036
    <<"h", "STATEB0", "STATEB0", "STATEB1", "TMP0">>, \* 3037
    <<"h2", "STATEB1", "STATEB1", "TMP2", "TMP0">>, \* 3038
    <<"add", "TMP0", "MSGC3", "KTMP">>, \* 3040
    <<"mov", "TMP2", "STATEC0">>, \* 3041
    <<"h", "STATEC0", "STATEC0", "STATEC1", "TMP0">>, \* 3042
    <<"h2", "STATEC1", "STATEC1", "TMP2", "TMP0">>, \* 3043
    <<"add", "TMP0", "MSGD3", "KTMP">>, \* 3045
    <<"mov", "TMP2", "STATED0">>, \* 3046
    <<"h", "STATED0", "STATED0", "STATED1", "TMP0">>, \* 3047
    <<"h2", "STATED1", "STATED1", "TMP2", "TMP0">> \* 3048
    >>

\* BleMiner4Way, if(i == 0): the first digests become the second message
BleMiner4Way_Second ==
    <<
    <<"mov", "TMP0", "val[0]">>, \* 3053
    <<"mov", "TMP2", "val[1]">>, \* 3054
    <<"add", "MSGA0", "STATEA0", "TMP0">>, \* 3056
    <<"add", "MSGA1", "STATEA1", "TMP2">>, \* 3057
    <<"mov", "MSGA2", "val[8]">>, \* 3058
    <<"mov", "MSGA3", "val[9]">>, \* 3059
    <<"add", "MSGB0", "STATEB0", "TMP0">>, \* 3061
    <<"add", "MSGB1", "STATEB1", "TMP2">>, \* 3062
    <<"mov", "MSGB2", "MSGA2">>, \* 3063
    <<"mov", "MSGB3", "MSGA3">>, \* 3064
    <<"add", "MSGC0", "STATEC0", "TMP0">>, \* 3066
    <<"add", "MSGC1", "STATEC1", "TMP2">>, \* 3067
    <<"mov", "MSGC2", "MSGA2">>, \* 3068
    <<"mov", "MSGC3", "MSGA3">>, \* 3069
    <<"add", "MSGD0", "STATED0", "TMP0">>, \* 3071
    <<"add", "MSGD1", "STATED1", "TMP2">>, \* 3072
    <<"mov", "MSGD2", "MSGA2">>, \* 3073
    <<"mov", "MSGD3", "MSGA3">>, \* 3074
    <<"mov", "TMP0", "val[6]">>, \* 3077
    <<"mov", "TMP2", "val[7]">>, \* 3078
    <<"mov", "STATEA0", "TMP0">>, \* 3079
    <<"mov", "STATEA1", "TMP2">>, \* 3080
    <<"mov", "STATEB0", "TMP0">>, \* 3081
    <<"mov", "STATEB1", "TMP2">>, \* 3082
    <<"mov", "STATEC0", "TMP0">>, \* 3083
    <<"mov", "STATEC1", "TMP2">>, \* 3084
    <<"mov", "STATED0", "TMP0">>, \* 3085
    <<"mov", "STATED1", "TMP2">> \* 3086
    >>

\* BleMiner4Way, after its loop: the initial state is added
BleMiner4Way_Final ==
    <<
    <<"mov", "TMP0", "val[6]">>, \* 3092
    <<"mov", "TMP2", "val[7]">>, \* 3093
    <<"add", "STATEA0", "STATEA0", "TMP0">>, \* 3095
    <<"add", "STATEA1", "STATEA1", "TMP2">>, \* 3096
    <<"add", "STATEB0", "STATEB0", "TMP0">>, \* 3098
    <<"add", "STATEB1", "STATEB1", "TMP2">>, \* 3099
    <<"add", "STATEC0", "STATEC0", "TMP0">>, \* 3101
    <<"add", "STATEC1", "STATEC1", "TMP2">>, \* 3102
    <<"add", "STATED0", "STATED0", "TMP0">>, \* 3104
    <<"add", "STATED1", "STATED1", "TMP2">> \* 3105
    >>

\* for(int i = 0; i < 2; i++) { rounds; if(i == 0) { second message; continue; } }
BleMiner4Way ==
    BleMiner4Way_Load \o BleMiner4Way_Rounds \o BleMiner4Way_Second
        \o BleMiner4Way_Rounds \o BleMiner4Way_Final

\* ---------------------------------------------------------------------------
\* Running the hashers.  proofOfWorkFinder calls BleMinerTransform1 once on the
\* header bytes and BleMiner3Way once per batch on its result, refreshing the
\* time lane between batches.  BleMinerInitialTransform, BleMiner, BleMiner2Way
\* and BleMiner4Way are not called by the running miner; they are run here on
\* the same header, the hashers on the scratchpad of BleMinerInitialTransform,
\* whose layout their loads expect, BleMiner once for each nonce of a batch.
\* ---------------------------------------------------------------------------
Code(fn) ==
    CASE fn = "BleMinerTransform1"       -> BleMinerTransform1
      [] fn = "BleMinerInitialTransform" -> BleMinerInitialTransform
      [] fn = "BleMiner"                 -> BleMiner
      [] fn = "BleMiner2Way"             -> BleMiner2Way
      [] fn = "BleMiner3Way"             -> BleMiner3Way
      [] fn = "BleMiner4Way"             -> BleMiner4Way

\* the calls in order; add is what the caller of BleMiner, which takes the
\* scratchpad by value, adds to the header's nonce before the call
Calls ==
    <<[fn |-> "BleMinerInitialTransform", add |-> 0],
      [fn |-> "BleMiner", add |-> 0],
      [fn |-> "BleMiner", add |-> 1],
      [fn |-> "BleMiner", add |-> 2],
      [fn |-> "BleMiner", add |-> 3],
      [fn |-> "BleMiner2Way", add |-> 0],
      [fn |-> "BleMiner4Way", add |-> 0],
      [fn |-> "BleMinerTransform1", add |-> 0],
      [fn |-> "BleMiner3Way", add |-> 0],
      [fn |-> "BleMiner3Way", add |-> 0]>>

\* the registers in which each hasher leaves its lanes' digests
LaneRegs(fn) ==
    CASE fn = "BleMiner"     -> <<<<"STATEA0", "STATEA1">>>>
      [] fn = "BleMiner2Way" -> <<<<"STATEA0", "STATEA1">>, <<"STATEB0", "STATEB1">>>>
      [] fn = "BleMiner3Way" -> <<<<"val[6]", "val[7]">>, <<"val[8]", "val[9]">>,
                                  <<"val[10]", "val[11]">>>>
      [] fn = "BleMiner4Way" -> <<<<"STATEA0", "STATEA1">>, <<"STATEB0", "STATEB1">>,
                                  <<"STATEC0", "STATEC1">>, <<"STATED0", "STATED1">>>>
      [] OTHER               -> <<>>

ValNames == {"val[0]", "val[1]", "val[2]", "val[3]", "val[4]", "val[5]", "val[6]",
             "val[7]", "val[8]", "val[9]", "val[10]", "val[11]", "val[12]", "val[13]"}

\* the scratchpad elements among the registers
Scratchpad(r) == [n \in DOMAIN r \cap ValNames |-> r[n]]

RECURSIVE AddLane(_, _)
AddLane(x, n) == IF n = 0 THEN x ELSE AddLane(IncLane(x), n - 1)

\* the bytes a uint32_t lane occupies in memory, lowest first
LaneBytes(x) ==
    <<x[2] % OctetBase, x[2] \div OctetBase, x[1] % OctetBase, x[1] \div OctetBase>>

\* the 112 header bytes with nTime (offset 100) and nNonce (offset 108) replaced
HeaderWith(bytes, nonce, time) ==
    SubSeq(bytes, 1, 100) \o LaneBytes(time) \o SubSeq(bytes, 105, 108)
        \o LaneBytes(nonce)

\* sample headers: a byte pattern per seed, with base nonces that wrap at 2^32,
\* carry from the low half into the high half, or do neither
SampleNonce(s) ==
    CASE s = 0 -> <<65535, 65534>>
      [] s = 1 -> <<4660, 65535>>
      [] OTHER -> <<(s * 40503) % HalfBase, (s * 25171 + 3) % HalfBase>>

SampleHeader(s) ==
    HeaderWith([j \in 1 .. 112 |-> (151 * s + 37 * j + ((j * j) % 29)) % OctetBase],
               SampleNonce(s),
               <<24000 + s, (s * 7919 + 11) % HalfBase>>)

SampleTime(s) == <<24000 + s, (s * 7919 + 600) % HalfBase>>

HashSeeds == 0 .. MaxSeed

\* what a callee sees of the caller's scratchpad
Entry(c, sp, bytes) ==
    CASE c.fn \in {"BleMinerTransform1", "BleMinerInitialTransform"} -> <<>>
      [] c.fn \in {"BleMiner", "BleMiner2Way"} ->
            [n \in {"val[0]", "val[1]", "val[2]", "val[3]", "val[4]", "val[5]"} |->
                IF n = "val[4]"
                THEN [sp[n] EXCEPT ![4] = AddLane(LoadLane(bytes, 108), c.add)]
                ELSE sp[n]]
      [] OTHER -> sp

\* the miner is at rest while the hashers are run on their own
MinerAtRest ==
    /\ nThreads = 1
    /\ found = FALSE /\ interrupt = FALSE /\ stop = FALSE
    /\ handlerBlock = NullBlock
    /\ currentOffset = [i \in Threads |-> Indeterminate]
    /\ connected = TRUE /\ chainTip = 1 /\ adjustedTime = 0
    /\ cpc = "main" /\ thdI = 0 /\ tmpl = NullBlock /\ retBlock = NullBlock
    /\ pc = [i \in Threads |-> "idle"]
    /\ from = [i \in Threads |-> 0]
    /\ to = [i \in Threads |-> 0]
    /\ block = [i \in Threads |-> NullBlock]
    /\ msgctxNonce = [i \in Threads |-> 0]
    /\ msgctxTime = [i \in Threads |-> 0]
    /\ hashPrevBlock = [i \in Threads |-> NoHash]
    /\ chaintipblockhash = [i \in Threads |-> NoHash]
    /\ waitforpeers = [i \in Threads |-> 0]
    /\ submits = 0
    /\ zeroAt = {}
    /\ digest = ZeroDigest /\ nBits = 0 /\ verdict = "none"
    /\ SyncAtRest

HashInit ==
    /\ MinerAtRest
    /\ \E s \in HashSeeds :
          /\ bleheaders = SampleHeader(s)
          /\ hashTime = SampleTime(s)
    /\ hasher = HashIdle
    /\ reg = <<>>
    /\ input32 = 0
    /\ msgctx = <<>>
    /\ minedhashes = <<>>

\* the caller enters the next hasher
HashCall ==
    /\ hasher.ip = 0
    /\ hasher.call < Len(Calls)
    /\ LET c == Calls[hasher.call + 1]
           r == Entry(c, msgctx, bleheaders)
       IN  /\ reg' = r
           /\ hasher' = [call |-> hasher.call + 1, ip |-> 1,
                         base |-> IF "val[4]" \in DOMAIN r THEN r["val[4]"][4] ELSE ZeroLane,
                         time |-> IF "val[4]" \in DOMAIN r THEN r["val[4]"][2] ELSE ZeroLane]
    /\ input32' = 0
    /\ UNCHANGED <<bleheaders, hashTime, msgctx, minedhashes, minerVars>>

\* one statement of the hasher
HashStep ==
    /\ hasher.ip > 0
    /\ hasher.ip <= Len(Code(Calls[hasher.call].fn))
    /\ LET ins == Code(Calls[hasher.call].fn)[hasher.ip]
       IN  /\ reg' = Exec(ins, reg, bleheaders, input32)
           /\ input32' = Advance(ins, input32)
    /\ hasher' = [hasher EXCEPT !.ip = @ + 1]
    /\ UNCHANGED <<bleheaders, hashTime, msgctx, minedhashes, minerVars>>

\* HashReturn with the scratchpad of the batch hashers taken by value, as BleMiner
\* takes it: their nonce increments do not reach the caller
HashReturn_ByValue ==
    /\ hasher.ip > 0
    /\ hasher.ip = Len(Code(Calls[hasher.call].fn)) + 1
    /\ LET fn == Calls[hasher.call].fn
           lanes == LaneRegs(fn)
       IN  /\ msgctx' = IF fn \in {"BleMiner", "BleMiner2Way", "BleMiner3Way",
                                    "BleMiner4Way"}
                        THEN msgctx
                        ELSE Scratchpad(reg)
           /\ minedhashes' = minedhashes \o
                 [i \in 1 .. Len(lanes) |->
                     [call |-> hasher.call, fn |-> fn, lane |-> i - 1,
                      base |-> hasher.base, time |-> hasher.time,
                      hash |-> reg[lanes[i][1]] \o reg[lanes[i][2]]]]
    /\ hasher' = [hasher EXCEPT !.ip = 0]
    /\ UNCHANGED <<bleheaders, hashTime, reg, input32, minerVars>>

\* the hasher returns: the scratchpad it was given by reference or returns by
\* value reaches the caller, and its lanes' digests are read
HashReturn ==
    /\ hasher.ip > 0
    /\ hasher.ip = Len(Code(Calls[hasher.call].fn)) + 1
    /\ LET fn == Calls[hasher.call].fn
           lanes == LaneRegs(fn)
       IN  /\ msgctx' = IF fn \in {"BleMiner", "BleMiner2Way"} THEN msgctx
                        ELSE Scratchpad(reg)
           /\ minedhashes' = minedhashes \o
                 [i \in 1 .. Len(lanes) |->
                     [call |-> hasher.call, fn |-> fn, lane |-> i - 1,
                      base |-> hasher.base, time |-> hasher.time,
                      hash |-> reg[lanes[i][1]] \o reg[lanes[i][2]]]]
    /\ hasher' = [hasher EXCEPT !.ip = 0]
    /\ UNCHANGED <<bleheaders, hashTime, reg, input32, minerVars>>

\* RefreshTime storing the time into val[4][0], the word before the time word
RefreshTime_WordBefore ==
    /\ hasher.ip = 0
    /\ hasher.call > 0
    /\ Calls[hasher.call].fn = "BleMiner3Way"
    /\ msgctx["val[4]"][1] # hashTime
    /\ msgctx' = [msgctx EXCEPT !["val[4]"][1] = hashTime]
    /\ UNCHANGED <<bleheaders, hashTime, hasher, reg, input32, minedhashes, minerVars>>

\* msgctx.val[4][1] = block.nTime between two batches of the running miner
RefreshTime ==
    /\ hasher.ip = 0
    /\ hasher.call > 0
    /\ Calls[hasher.call].fn = "BleMiner3Way"
    /\ msgctx["val[4]"][2] # hashTime
    /\ msgctx' = [msgctx EXCEPT !["val[4]"][2] = hashTime]
    /\ UNCHANGED <<bleheaders, hashTime, hasher, reg, input32, minedhashes, minerVars>>

HashNext == HashCall \/ HashStep \/ HashReturn \/ RefreshTime

HashSpec == HashInit /\ [][HashNext]_vars

\* ------------------------------------------------- proofOfWorkFinderArmV8
\* the 4-lane worker, which line 5476 would spawn in place of proofOfWorkFinder;
\* its start (5491-5508), its previous-hash loop (5516-5525), its housekeeping
\* checks (5700-5725) are the statements of the 3-lane worker
ArmV8Lanes == 4        \* nonces hashed per BleMiner4Way call

\* lines 5469-5477 with line 5476 in place of line 5475: a session whose threads
\* have just been spawned
ArmV8Init ==
    /\ nThreads \in 1 .. MaxThreads
    /\ found = FALSE /\ interrupt = FALSE /\ stop = FALSE
    /\ handlerBlock = NullBlock
    /\ currentOffset = [i \in Threads |-> Indeterminate]
    /\ connected \in BOOLEAN
    /\ chainTip = 1
    /\ adjustedTime = 0
    /\ zeroAt \in Oracles
    /\ tmpl = [hashPrevBlock |-> chainTip, nBits |-> LowBits,
               nTime |-> adjustedTime, nNonce |-> 0]
    /\ cpc = "join" /\ thdI = 0 /\ retBlock = NullBlock
    /\ pc = [i \in Threads |-> IF i < nThreads THEN "start" ELSE "idle"]
    /\ from = [i \in Threads |-> IF i < nThreads THEN RangeFrom(i, nThreads) ELSE 0]
    /\ to = [i \in Threads |-> IF i < nThreads THEN RangeTo(i, nThreads) ELSE 0]
    /\ block = [i \in Threads |-> IF i < nThreads THEN tmpl ELSE NullBlock]
    /\ msgctxNonce = [i \in Threads |-> 0]
    /\ msgctxTime = [i \in Threads |-> 0]
    /\ hashPrevBlock = [i \in Threads |-> NoHash]
    /\ chaintipblockhash = [i \in Threads |-> NoHash]
    /\ waitforpeers = [i \in Threads |-> 0]
    /\ submits = 0
    /\ digest = ZeroDigest /\ nBits = 0 /\ verdict = "none"
    /\ HashAtRest
    /\ SyncAtRest

\* lines 5527-5537: the stop test at the head of the work loop; the progress
\* counter is taken from block.nNonce
ArmV8LoopTop(i) ==
    /\ pc[i] = "top"
    /\ IF stop
       THEN /\ currentOffset' = [currentOffset EXCEPT ![i] = U32(block[i].nNonce - from[i])]
            /\ block' = [block EXCEPT ![i] = NullBlock]
            /\ pc' = [pc EXCEPT ![i] = "summary"]
       ELSE /\ pc' = [pc EXCEPT ![i] = "batch"]
            /\ UNCHANGED <<currentOffset, block>>
    /\ WorkerFrame
    /\ UNCHANGED <<found, interrupt, stop, handlerBlock, threadArgs, msgctxNonce,
                   msgctxTime, hashPrevBlock, chaintipblockhash, waitforpeers, submits>>

\* lines 5539-5698: one BleMiner4Way call, which advances the nonce word by four;
\* the four lane tests, whose branches for a digest that passes CheckProofOfWork
\* are empty (5609-5612, 5627-5632, 5647-5652, 5667-5672) and between which
\* block.nNonce is incremented; the housekeeping test on block.nNonce and the
\* time refresh
ArmV8Batch(i) ==
    /\ pc[i] = "batch"
    /\ LET nonce == U32(block[i].nNonce + ArmV8Lanes)
       IN  /\ msgctxNonce' = [msgctxNonce EXCEPT ![i] = U32(msgctxNonce[i] + ArmV8Lanes)]
           /\ IF nonce % (ArmV8Lanes * HousekeepBatches) = 0
              THEN /\ block' = [block EXCEPT ![i].nNonce = nonce,
                                             ![i].nTime = adjustedTime]
                   /\ msgctxTime' = [msgctxTime EXCEPT ![i] = adjustedTime]
                   /\ pc' = [pc EXCEPT ![i] = IF i = 0 THEN "hk_interrupt" ELSE "top"]
              ELSE /\ block' = [block EXCEPT ![i].nNonce = nonce]
                   /\ pc' = [pc EXCEPT ![i] = "top"]
                   /\ UNCHANGED msgctxTime
    /\ WorkerFrame
    /\ UNCHANGED <<handlerVars, threadArgs, hashPrevBlock, chaintipblockhash,
                   waitforpeers, submits>>

\* lines 5729-5771: the summary, the return with a null block, and for a block
\* that is not null the peer retries (which find a peer or give up), found, the
\* stored block and the submission
ArmV8Exit(i) ==
    /\ pc[i] = "summary"
    /\ IF IsNull(block[i])
       THEN UNCHANGED <<handlerVars, submits>>
       ELSE \E peer \in {connected, TRUE} :
               IF peer
               THEN /\ found' = TRUE
                    /\ handlerBlock' = block[i]
                    /\ submits' = submits + 1
                    /\ UNCHANGED <<interrupt, stop, currentOffset>>
               ELSE UNCHANGED <<handlerVars, submits>>
    /\ Return(i)
    /\ WorkerFrame

proofOfWorkFinderArmV8(i) ==
    \/ Start(i) \/ PrevHash(i) \/ ArmV8LoopTop(i) \/ ArmV8Batch(i)
    \/ HkInterrupt(i) \/ HkPoll(i) \/ HkStale(i)
    \/ ArmV8Exit(i)

ArmV8Next ==
    \/ \E i \in Threads : proofOfWorkFinderArmV8(i)
    \/ Join \/ ReturnBlock
    \/ Environment

ArmV8Spec == ArmV8Init /\ [][ArmV8Next]_vars

\* ------------------------------------------------ wait4Peers and wait4Sync
\* the height of a tip: the environment's tips 1, 2, ... have heights 0, 1, ...
Height(tip) == tip - 1

\* CreateAndProcessBlock is entered (line 5388) with or without a peer and with or
\* without a chain tip
SyncInit ==
    /\ nThreads = 1
    /\ found = FALSE /\ interrupt = FALSE /\ stop = FALSE
    /\ handlerBlock = NullBlock
    /\ currentOffset = [i \in Threads |-> Indeterminate]
    /\ connected \in BOOLEAN
    /\ chainTip \in {NoHash, 1}
    /\ adjustedTime = 0
    /\ cpc = "main" /\ thdI = 0 /\ tmpl = NullBlock /\ retBlock = NullBlock
    /\ pc = [i \in Threads |-> "idle"]
    /\ from = [i \in Threads |-> 0]
    /\ to = [i \in Threads |-> 0]
    /\ block = [i \in Threads |-> NullBlock]
    /\ msgctxNonce = [i \in Threads |-> 0]
    /\ msgctxTime = [i \in Threads |-> 0]
    /\ hashPrevBlock = [i \in Threads |-> NoHash]
    /\ chaintipblockhash = [i \in Threads |-> NoHash]
    /\ waitforpeers = [i \in Threads |-> 0]
    /\ submits = 0
    /\ zeroAt = {}
    /\ digest = ZeroDigest /\ nBits = 0 /\ verdict = "none"
    /\ HashAtRest
    /\ spc = "wait4Peers" /\ w4pI = 0 /\ capI = 0
    /\ height = 0 /\ w4sI = 0 /\ newHeadBlock = NoHash

\* what wait4Peers, wait4Sync and the lines that call them leave alone
SyncFrame ==
    UNCHANGED <<handlerVars, envVars, coordVars, threadVars, submits, digest, nBits,
                verdict, hashVars>>

\* wait4Peers returning its count when it is interrupted
wait4Peers_CountOnInterrupt ==
    /\ spc = "wait4Peers"
    /\ IF connected \/ interrupt
       THEN capI' = w4pI /\ spc' = "offline" /\ UNCHANGED w4pI
       ELSE /\ w4pI < MaxProbes
            /\ w4pI' = w4pI + 1
            /\ UNCHANGED <<capI, spc>>
    /\ UNCHANGED <<height, w4sI, newHeadBlock>>
    /\ SyncFrame

\* lines 111-123: one test of the loop of wait4Peers
wait4Peers ==
    /\ spc = "wait4Peers"
    /\ IF connected
       THEN capI' = w4pI /\ spc' = "offline" /\ UNCHANGED w4pI
       ELSE IF interrupt
       THEN capI' = 0 /\ spc' = "offline" /\ UNCHANGED w4pI
       ELSE /\ w4pI < MaxProbes
            /\ w4pI' = w4pI + 1
            /\ UNCHANGED <<capI, spc>>
    /\ UNCHANGED <<height, w4sI, newHeadBlock>>
    /\ SyncFrame

\* lines 5390-5393: wait4Sync is called after more than ten minutes without a peer
OfflineTest ==
    /\ spc = "offline"
    /\ spc' = IF capI > OfflineLimit THEN "wait4Sync" ELSE "beat"
    /\ UNCHANGED <<w4pI, capI, height, w4sI, newHeadBlock>>
    /\ SyncFrame

\* lines 77-83: the height of the tip at entry, 0 without a tip
SyncStart ==
    /\ spc = "wait4Sync"
    /\ height' = IF chainTip # NoHash THEN Height(chainTip) ELSE 0
    /\ spc' = "window"
    /\ UNCHANGED <<w4pI, capI, w4sI, newHeadBlock>>
    /\ SyncFrame

\* lines 84-88: the interrupt test at the start of a polling window
SyncWindow ==
    /\ spc = "window"
    /\ IF interrupt
       THEN spc' = "beat" /\ UNCHANGED w4sI
       ELSE spc' = "poll" /\ w4sI' = 0
    /\ UNCHANGED <<w4pI, capI, height, newHeadBlock>>
    /\ SyncFrame

\* lines 89-98: one poll of the tip; the window has SYNC_WAIT + 1 of them
SyncPoll ==
    /\ spc = "poll"
    /\ newHeadBlock' = chainTip
    /\ w4sI' = w4sI + 1
    /\ spc' = IF w4sI + 1 <= SYNC_WAIT THEN "poll" ELSE "check"
    /\ UNCHANGED <<w4pI, capI, height>>
    /\ SyncFrame

\* SyncCheck without lines 102-107: the height recorded at entry is kept
SyncCheck_KeepsHeight ==
    /\ spc = "check"
    /\ spc' = IF newHeadBlock # NoHash /\ Height(newHeadBlock) = height
              THEN "beat" ELSE "window"
    /\ UNCHANGED <<w4pI, capI, height, w4sI, newHeadBlock>>
    /\ SyncFrame

\* lines 99-107: return when the last poll read the recorded height, else record
\* the height it read (0 without a tip) and start another window
SyncCheck ==
    /\ spc = "check"
    /\ IF newHeadBlock # NoHash /\ Height(newHeadBlock) = height
       THEN spc' = "beat" /\ UNCHANGED height
       ELSE /\ height' = IF newHeadBlock = NoHash THEN 0 ELSE Height(newHeadBlock)
            /\ spc' = "window"
    /\ UNCHANGED <<w4pI, capI, w4sI, newHeadBlock>>
    /\ SyncFrame

SyncNext ==
    \/ wait4Peers \/ OfflineTest
    \/ SyncStart \/ SyncWindow \/ SyncPoll \/ SyncCheck
    \/ my_handler \/ PeersChange \/ TipChange

SyncSpec == SyncInit /\ [][SyncNext]_vars

\* ------------------------------------------------------------------ claims
\* the threads of the session: indices 0 .. MAX_N_THREADS - 1
Workers == 0 .. (nThreads - 1)

\* the positions inside the work loop
SearchPcs == {"top", "batch", "hk_interrupt", "hk_poll", "hk_stale"}

\* C1: for every thread count the intervals [from, to) handed to the threads tile
\* the nonce space: each nonce lies in exactly one of them
C1_IntervalsTile ==
    (cpc = "join" /\ \A i \in Workers : pc[i] = "start")
    => \A n \in Nonces :
          Cardinality({i \in Workers : InRange(n, from[i], to[i])}) = 1

\* C2: every nonce a thread passes to the batch hasher lies in its interval
\* [from, to)
C2_NoncesInRange ==
    [][\A i \in Threads :
          (pc[i] = "batch" /\ pc'[i] # "batch" /\ from[i] < to[i])
          => \A k \in 1 .. LaneCount :
                InRange(LaneNonce(msgctxNonce[i], k), from[i], to[i])]_vars

\* C3 as stated: after an interrupt is requested while every thread of a running
\* session is still searching, the session returns no block
C3_InterruptReturnsNone ==
    []((interrupt /\ cpc = "join" /\ ~stop
          /\ \A i \in Workers : pc[i] \in SearchPcs)
       => [](cpc = "main" => retBlock = NullBlock))

\* C3: after an interrupt is requested while a session is running every thread
\* leaves its loop and the session comes to its return; it returns no block
\* unless a thread had a lane pass the full check and stored its header
C3_InterruptEndsSession ==
    /\ (interrupt /\ cpc = "join") ~> (cpc = "ret" /\ stop)
    /\ [][(pc[0] = "hk_interrupt" /\ pc'[0] # "hk_interrupt" /\ interrupt) => stop']_vars
    /\ [](interrupt /\ cpc = "main" /\ submits = 0 => retBlock = NullBlock)

\* a session ended by an interrupt alone comes to its return with no block
C3_Witness ==
    /\ cpc = "ret" /\ interrupt /\ stop /\ ~found
    /\ nThreads = MaxThreads /\ zeroAt = {} /\ chainTip = tmpl.hashPrevBlock

\* C4 as stated: a session without a valid nonce, a tip change or an interrupt
\* still comes to its return
C4_ExhaustionTerminates ==
    (cpc = "join" /\ zeroAt = {})
    ~> (cpc = "ret" \/ interrupt \/ chainTip # tmpl.hashPrevBlock)

\* C5: once the chain tip differs from the template's previous-block hash, thread 0
\* sets stop at a housekeeping boundary where it sees the difference, every thread
\* exits, and a session in which nothing was found returns the empty block
C5_StaleTipStops ==
    /\ (cpc = "join" /\ chainTip # tmpl.hashPrevBlock) ~> (cpc = "ret" /\ stop)
    /\ [][(pc[0] = "hk_poll" /\ pc'[0] = "hk_stale" /\ ~stop /\ ~interrupt)
             => chaintipblockhash[0] = chainTip]_vars
    /\ [][(pc[0] = "hk_stale" /\ pc'[0] # "hk_stale"
             /\ chaintipblockhash[0] # hashPrevBlock[0]) => stop']_vars
    /\ [][(cpc = "ret" /\ cpc' # "ret" /\ ~found) => retBlock' = NullBlock]_vars

\* thread 0 has just set stop because the tip it polled is not the template's
C5_Witness ==
    /\ pc[0] = "top" /\ stop /\ ~interrupt /\ zeroAt = {} /\ nThreads = MaxThreads
    /\ hashPrevBlock[0] = tmpl.hashPrevBlock
    /\ chaintipblockhash[0] = chainTip /\ chainTip # hashPrevBlock[0]

\* C6: once found is set and a winning header is stored, no thread writes the
\* stored header again before the session is over
C6_WinnerFinal ==
    [][(found /\ ~IsNull(handlerBlock) /\ cpc = "join")
          => handlerBlock' = handlerBlock]_vars

\* C7: CreateAndProcessBlock returns only when every thread it spawned has been
\* joined; it returns the stored block, which is a mined one, exactly when found is
\* set, and the empty block otherwise
C7_ReturnAfterJoin ==
    [][(cpc = "ret" /\ cpc' # "ret")
          => /\ \A i \in Threads : pc[i] = "idle"
             /\ retBlock' = IF found THEN handlerBlock ELSE NullBlock
             /\ found <=> ~IsNull(retBlock')]_vars

\* a session has returned the block a thread stored
C7_Witness ==
    cpc = "main" /\ found /\ ~IsNull(retBlock) /\ retBlock = handlerBlock

\* C8: a digest that passes the full check against a compact target is never
\* skipped by the quick filter
C8_NoFalseNegative ==
    verdict = "skipped" => ~CheckProofOfWork(SwapDigest(digest), nBits)

\* C9: the retry loop counts down from its bound; a thread that still finds no
\* peer at the last probe returns without setting found, storing or submitting;
\* one that finds a peer sets found, stores its block and submits it
C9_BoundedPeerRetry ==
    /\ [](\A i \in Threads : waitforpeers[i] \in 0 .. MaxPeerWaits)
    /\ [][\A i \in Threads :
             /\ (pc[i] = "peers_wait" /\ waitforpeers'[i] # waitforpeers[i])
                => ~connected /\ waitforpeers'[i] = waitforpeers[i] - 1
             /\ (pc[i] = "peers_last" /\ pc'[i] # "peers_last" /\ ~connected)
                => /\ pc'[i] = "done"
                   /\ UNCHANGED <<found, handlerBlock, submits>>
             /\ (pc[i] = "peers_last" /\ pc'[i] # "peers_last" /\ connected)
                => pc'[i] = "set_found" /\ block'[i] = block[i]
             /\ (pc[i] = "set_found" /\ pc'[i] # "set_found")
                => found' /\ pc'[i] = "store" /\ block'[i] = block[i]
             /\ (pc[i] = "store" /\ pc'[i] # "store")
                => handlerBlock' = block[i] /\ submits' = submits + 1]_vars

\* a thread with a mined block has used up its waits and still has no peer
C9_Witness ==
    \E i \in Workers :
        /\ pc[i] = "peers_last" /\ waitforpeers[i] = 0 /\ ~connected
        /\ ~IsNull(block[i]) /\ ~found

\* C10: the progress counters are read for the summary only when every other
\* thread has returned
C10_SummaryAfterJoin ==
    (pc[0] = "summary" /\ IsNull(block[0]))
    => \A j \in Workers \ {0} : pc[j] \in {"done", "idle"}

\* C11: no step of the coordinator or of a worker resets the interrupt flag; once
\* set it stays set
C11_InterruptNeverReset ==
    [][interrupt => interrupt']_vars

\* the nonce a returned digest belongs to: the nonce at entry plus the lane index
HashNonce(h) == AddLane(h.base, h.lane)

\* the digests the hasher call that has just returned produced
Returned ==
    {k \in 1 .. Len(minedhashes) :
        hasher.ip = 0 /\ minedhashes[k].call = hasher.call}

\* C12: every digest a hasher returns from its cache (computed once by
\* BleMinerTransform1 or BleMinerInitialTransform) equals the reference double
\* SHA-256 of the 112 header bytes carrying that lane's nonce and the time that
\* was in the scratchpad at the call
C12_DigestIsDoubleSha256 ==
    \A k \in Returned :
        minedhashes[k].hash =
            RefSha256d(HeaderWith(bleheaders, HashNonce(minedhashes[k]),
                                  minedhashes[k].time))

\* a 3-lane batch has returned digests for a refreshed time, and a batch has
\* hashed a nonce that wrapped to zero
C12_Witness ==
    /\ \E k \in Returned :
          /\ minedhashes[k].fn = "BleMiner3Way"
          /\ minedhashes[k].time = hashTime
          /\ minedhashes[k].time # LoadLane(bleheaders, 100)
    /\ \E k \in 1 .. Len(minedhashes) :
          /\ minedhashes[k].fn = "BleMiner3Way"
          /\ minedhashes[k].lane > 0
          /\ HashNonce(minedhashes[k]) = ZeroLane

\* C13: lane i of the 2-, 3- and 4-lane hashers returns the digest BleMiner
\* returns for the same header, time and nonce B+i
C13_LanesMatchOneLane ==
    \A j, k \in 1 .. Len(minedhashes) :
        ( /\ minedhashes[j].fn = "BleMiner"
          /\ HashNonce(minedhashes[j]) = HashNonce(minedhashes[k])
          /\ minedhashes[j].time = minedhashes[k].time )
        => minedhashes[j].hash = minedhashes[k].hash

\* every lane of every batch hasher has been compared with the 1-lane digest
C13_Witness ==
    \A fn \in {"BleMiner2Way", "BleMiner3Way", "BleMiner4Way"} :
        \A i \in 1 .. Len(LaneRegs(fn)) :
            \E j, k \in 1 .. Len(minedhashes) :
                /\ minedhashes[j].fn = "BleMiner"
                /\ minedhashes[k].fn = fn
                /\ minedhashes[k].lane = i - 1
                /\ HashNonce(minedhashes[j]) = HashNonce(minedhashes[k])
                /\ minedhashes[j].time = minedhashes[k].time

\* the header b hashes to a digest that passes the quick filter and the full check
WinningHeader(b) == LaneWins(LaneDigest(b.nNonce, b.nTime), b.nBits)

\* C14: found implies stop in every state, and found is set, and a header stored
\* in the handler, only by a thread whose block is a header of this session's
\* template that passed the quick filter and the full check
C14_FoundOnlyAfterWin ==
    /\ [](found => stop)
    /\ [][ /\ (found' /\ ~found) =>
                \E i \in Workers :
                    /\ pc[i] = "set_found" /\ pc'[i] = "store"
                    /\ block[i].hashPrevBlock = tmpl.hashPrevBlock
                    /\ WinningHeader(block[i])
           /\ (handlerBlock' # handlerBlock /\ handlerBlock' # NullBlock) =>
                \E i \in Workers :
                    /\ pc[i] = "store" /\ handlerBlock' = block[i]
                    /\ found
                    /\ block[i].hashPrevBlock = tmpl.hashPrevBlock
                    /\ WinningHeader(block[i]) ]_vars

\* a thread has set found and stored its winning header
C14_Witness ==
    found /\ stop /\ handlerBlock # NullBlock /\ WinningHeader(handlerBlock)

\* thread i has made a batch call and its nonce word is not at a housekeeping
\* boundary
BetweenBoundaries(i) ==
    msgctxNonce[i] # from[i] /\ ~HousekeepingDue(msgctxNonce[i])

C16_StopEndsSession ==
    (stop /\ cpc = "join") ~> (cpc = "ret" /\ \A i \in Workers : pc[i] = "idle")

\* stop is set by another thread while thread 0 is in its chain-tip polling loop
\* with a tip it has not read yet
C16_Witness ==
    /\ stop /\ cpc = "join" /\ pc[0] = "hk_poll"
    /\ chaintipblockhash[0] # chainTip

\* stop is set by another thread while thread 0 is in its previous-hash loop
C16_WitnessPrevHash ==
    stop /\ cpc = "join" /\ pc[0] = "prevhash" /\ hashPrevBlock[0] = NoHash

\* the nonce advances thread i has made when its nonce word is n, counted from its
\* starting nonce (exact until the word has come back round to from)
AdvancesSince(i, n) == U32(n - from[i])

\* thread i leaves a batch call without a win
BatchWithoutWin(i) ==
    pc[i] = "batch" /\ pc'[i] \in {"top", "hk_interrupt"}

\* C17: every worker, whatever its starting nonce, does housekeeping after every
\* HousekeepPeriod nonce advances: a batch call without a win that completes a
\* period refreshes the time of the block and of the cached message words, and on
\* thread 0 goes on to the interrupt, chain-tip and exhaustion checks
C17_HousekeepingEveryPeriod ==
    [][\A i \in Workers :
          (BatchWithoutWin(i) /\ AdvancesSince(i, msgctxNonce'[i]) % HousekeepPeriod = 0)
          => /\ msgctxTime'[i] = adjustedTime
             /\ block'[i].nTime = adjustedTime
             /\ (i = 0 => pc'[i] = "hk_interrupt")]_vars

\* the nonce word of a scratchpad: val[4][3], stateandmessage[19]
NonceWord(sp) == sp["val[4]"][4]

C18_WorkerCounter ==
    [][\A i \in Threads :
          msgctxNonce'[i] # msgctxNonce[i]
          => \/ pc[i] = "start" /\ msgctxNonce'[i] = from[i]
             \/ pc[i] = "batch" /\ msgctxNonce'[i] = U32(msgctxNonce[i] + LaneCount)
             \/ pc'[i] = "done" /\ msgctxNonce'[i] = 0]_vars

\* thread i leaves a batch call with a win
BatchWithWin(i) ==
    pc[i] = "batch" /\ pc'[i] = "summary"

\* C19: in a batch call with base nonce B the lanes hash B, B+1, B+2 (the model
\* counts them k = 1, 2, 3), and when a lane's digest passes the full check the
\* header the worker records carries that lane's nonce and the time that was in
\* the cached message words when the digest was computed: the recorded header is
\* one whose digest passed
C19_WinnerCarriesLaneNonce ==
    [][\A i \in Workers :
          BatchWithWin(i)
          => \E k \in 1 .. LaneCount :
                /\ block'[i].nNonce = U32(msgctxNonce[i] + k - 1)
                /\ block'[i].nTime = msgctxTime[i]
                /\ LaneWins(LaneDigest(U32(msgctxNonce[i] + k - 1), msgctxTime[i]),
                            block[i].nBits)
                /\ \A j \in 1 .. (k - 1) :
                      ~LaneWins(LaneDigest(U32(msgctxNonce[i] + j - 1), msgctxTime[i]),
                                block[i].nBits)
                /\ WinningHeader(block'[i])]_vars

\* a thread has recorded a win of its middle lane, after a wrap of the nonce word,
\* for a time that housekeeping had refreshed
C19_Witness ==
    \E i \in Workers :
        /\ pc[i] = "summary" /\ stop /\ ~IsNull(block[i])
        /\ block[i].nNonce = U32(msgctxNonce[i] - 2)
        /\ block[i].nNonce < from[i]
        /\ block[i].nTime = msgctxTime[i]
        /\ block[i].nTime # tmpl.nTime

\* the positions of the checks of thread 0: the previous-hash loop and the
\* interrupt, chain-tip and exhaustion checks of housekeeping
CheckPcs == {"prevhash", "hk_interrupt", "hk_poll", "hk_stale"}

\* C20: only thread 0 checks the interrupt flag, polls the chain tip and tests for
\* exhaustion: no other thread is ever at one of those checks or reads a tip; and
\* a step that sets stop is either a check of thread 0 or a batch call of some
\* thread in which a lane's digest passed the full check
C20_OnlyThreadZeroChecks ==
    /\ [](\A i \in Threads \ {0} :
            /\ pc[i] \notin CheckPcs
            /\ chaintipblockhash[i] = NoHash /\ hashPrevBlock[i] = NoHash)
    /\ [][(stop' /\ ~stop)
            => \/ pc[0] \in {"hk_interrupt", "hk_stale"} /\ pc'[0] # pc[0]
               \/ \E i \in Workers : BatchWithWin(i) /\ WinningHeader(block'[i])]_vars

\* a thread other than thread 0 has done its housekeeping, the time refresh alone,
\* while an interrupt is pending and the tip is no longer the template's, and stop
\* is still unset
C20_Witness ==
    \E i \in Workers \ {0} :
        /\ pc[i] = "top" /\ msgctxNonce[i] # from[i]
        /\ HousekeepingDue(msgctxNonce[i])
        /\ msgctxTime[i] # tmpl.nTime
        /\ interrupt /\ chainTip # tmpl.hashPrevBlock /\ ~stop

\* the elements of the scratchpad BleMinerTransform1 fills and no lane writes: the
\* state after the first block, the message words of the second block, the
\* padding words, the state after rounds 1-8
CacheNames == {"val[0]", "val[1]", "val[2]", "val[3]", "val[5]", "val[12]", "val[13]"}

\* C21: a batch call and a time refresh leave the Transform1 cache as it was: of
\* the elements Transform1 filled they change only the time word val[4][1] and the
\* nonce word val[4][3]; everything else they change is a lane's output
C21_CacheUnchanged ==
    [][(msgctx' # msgctx /\ hasher.call > 0 /\ Calls[hasher.call].fn = "BleMiner3Way")
         => /\ CacheNames \subseteq DOMAIN msgctx
            /\ \A n \in CacheNames : msgctx'[n] = msgctx[n]
            /\ msgctx'["val[4]"][1] = msgctx["val[4]"][1]
            /\ msgctx'["val[4]"][3] = msgctx["val[4]"][3]]_vars

\* the second batch call has returned after a time refresh, with the cache still in
\* the scratchpad and the nonce and time words changed since Transform1
C21_Witness ==
    /\ \E k \in Returned :
          /\ minedhashes[k].fn = "BleMiner3Way"
          /\ minedhashes[k].base = AddLane(LoadLane(bleheaders, 108), 3)
    /\ CacheNames \subseteq DOMAIN msgctx
    /\ msgctx["val[4]"][2] = hashTime
    /\ msgctx["val[4]"][2] # LoadLane(bleheaders, 100)
    /\ NonceWord(msgctx) # LoadLane(bleheaders, 108)

\* C22: at the moment workers are spawned, found and stop are false and the stored
\* header is empty
C22_FreshAtEverySpawn ==
    cpc = "spawn" => (~found /\ ~stop /\ IsNull(handlerBlock))

\* C22 as the code has it: found and stop are false and the stored header is empty
\* when the first worker of a session is spawned (a worker spawned later may find
\* stop, found and a header already set by a worker of the same session); while a
\* session runs a stored header implies found, and a session that ends with found
\* unset returns the empty block
C22_FreshAtFirstSpawn ==
    /\ []((cpc = "spawn" /\ thdI = 0) => (~found /\ ~stop /\ IsNull(handlerBlock)))
    /\ []((cpc \in {"spawn", "join", "ret"} /\ ~found) => IsNull(handlerBlock))
    /\ [][(cpc = "ret" /\ cpc' # "ret" /\ ~found) => retBlock' = NullBlock]_vars

\* a session is about to spawn its first worker after a session that submitted a
\* block
C22_Witness ==
    /\ cpc = "spawn" /\ thdI = 0 /\ submits > 0
    /\ ~found /\ ~stop /\ IsNull(handlerBlock)

\* the positions after the work loop
ExitPcs == {"summary", "peers_wait", "peers_last", "set_found", "store", "done"}

\* C23: a worker runs Transform1 once, at its start, before its first batch call;
\* it makes batch calls only from the head of the work loop; it leaves the loop
\* only at the head with stop set (with a null block) or from a batch call in
\* which a lane passed the full check (with the winning header); and once out of
\* the loop it makes no batch call and does not come back
C23_InitSearchExit ==
    [][\A i \in Workers :
          /\ (pc'[i] = "start" /\ pc[i] # "start") => (pc[i] = "idle" /\ cpc = "spawn")
          /\ (pc[i] = "start" /\ pc'[i] # "start")
             => /\ pc'[i] \in {"prevhash", "top"}
                /\ msgctxNonce'[i] = from[i] /\ msgctxTime'[i] = block[i].nTime
          /\ (pc'[i] \in SearchPcs /\ pc[i] \notin SearchPcs)
             => (pc[i] \in {"start", "prevhash"} /\ pc'[i] = "top")
          /\ (pc'[i] = "batch" /\ pc[i] # "batch") => pc[i] = "top"
          /\ (pc[i] \in SearchPcs /\ pc'[i] \notin SearchPcs)
             => /\ pc'[i] = "summary"
                /\ \/ pc[i] = "top" /\ stop /\ IsNull(block'[i])
                   \/ BatchWithWin(i) /\ stop' /\ WinningHeader(block'[i])
          /\ pc[i] \in ExitPcs
             => /\ pc'[i] \in ExitPcs \union {"idle"}
                /\ msgctxNonce'[i] \in {msgctxNonce[i], 0}]_vars

\* one worker has left the loop with a win and another on finding stop set
C23_Witness ==
    \E i, j \in Workers :
        /\ pc[i] = "summary" /\ ~IsNull(block[i]) /\ WinningHeader(block[i])
        /\ pc[j] = "summary" /\ IsNull(block[j]) /\ msgctxNonce[j] # from[j]
        /\ stop

\* C24: in the 4-lane worker a batch call in which a lane's digest passes the
\* quick filter and the full check makes the worker set stop and leave the loop
\* with a block that is not null, on its way to setting found and storing it
C24_ArmV8WinStops ==
    [][\A i \in Workers :
          ( /\ pc[i] = "batch" /\ pc'[i] # "batch"
            /\ \E k \in 1 .. ArmV8Lanes :
                  LaneWins(LaneDigest(U32(msgctxNonce[i] + k - 1), msgctxTime[i]),
                           block[i].nBits) )
          => (stop' /\ pc'[i] = "summary" /\ ~IsNull(block'[i]))]_vars

\* C25: when a worker returns, its progress counter is the number of nonces it
\* evaluated, its nonce word minus from, whether it left the loop on stop or
\* because it found a block
C25_ProgressCounted ==
    [][\A i \in Workers :
          (pc[i] # "done" /\ pc'[i] = "done")
          => currentOffset'[i] = U32(msgctxNonce[i] - from[i])]_vars

\* C26: in a session at most one worker reaches the submission step: the
\* submission is made at most once per session
C26_OneSubmission ==
    /\ submits <= 1
    /\ Cardinality({i \in Workers : pc[i] \in {"set_found", "store"}}) <= 1

\* C27: a check of the beat-wait loop that finds the interrupt set or no peer
\* makes CreateAndProcessBlock return the empty block: the handler is not reset,
\* no template is built and no thread is spawned
C27_BeatWaitGivesUp ==
    [][(cpc = "beat" /\ (interrupt \/ ~connected) /\ cpc' # cpc)
         => /\ cpc' = "main" /\ retBlock' = NullBlock
            /\ UNCHANGED <<handlerVars, tmpl, threadVars, submits>>]_vars

\* CreateAndProcessBlock has given up in its beat-wait loop for want of a peer: it
\* is back in main with the empty block and the handler as the last session left
\* it
C27_Witness ==
    /\ cpc = "main" /\ ~connected /\ ~interrupt
    /\ retBlock = NullBlock /\ found /\ stop /\ ~IsNull(handlerBlock)

\* C28: wait4Sync returns only from the start of a polling window with the
\* interrupt set, or from the end of a window whose last poll read a tip at the
\* recorded height; the tip a window ends with is the one its last poll read; and
\* after a window that ends otherwise it records the height last read (0 without
\* a tip) and starts another window
C28_SyncReturns ==
    [][/\ (spc \in {"wait4Sync", "window", "poll", "check"} /\ spc' = "beat")
          => \/ spc = "window" /\ interrupt
             \/ /\ spc = "check" /\ newHeadBlock # NoHash
                /\ Height(newHeadBlock) = height
       /\ (spc = "poll" /\ spc' = "check")
          => (w4sI = SYNC_WAIT /\ newHeadBlock' = chainTip)
       /\ (spc = "check" /\ spc' # "check")
          => IF newHeadBlock # NoHash /\ Height(newHeadBlock) = height
             THEN spc' = "beat"
             ELSE /\ spc' = "window"
                  /\ height' = IF newHeadBlock = NoHash THEN 0 ELSE Height(newHeadBlock)
                  /\ height' # height \/ newHeadBlock = NoHash]_vars

\* a window has ended with a tip at another height than the recorded one: the new
\* height is recorded and another window starts
C28_Witness ==
    /\ spc = "window" /\ w4sI = SYNC_WAIT + 1 /\ ~interrupt
    /\ newHeadBlock # NoHash /\ height = Height(newHeadBlock) /\ height > 0

\* C29: wait4Peers counts the probes that find no peer; it returns 0 when it finds
\* the interrupt set while there is no peer, and else its count at the first probe
\* that finds a peer; CreateAndProcessBlock calls wait4Sync exactly when the value
\* returned exceeds the limit, and from nowhere else
C29_PeersThenSync ==
    [][/\ (spc = "wait4Peers" /\ w4pI' # w4pI)
          => (~connected /\ ~interrupt /\ w4pI' = w4pI + 1 /\ spc' = spc)
       /\ (spc = "wait4Peers" /\ spc' # spc)
          => /\ spc' = "offline"
             /\ IF connected THEN capI' = w4pI ELSE (interrupt /\ capI' = 0)
       /\ (spc = "offline" /\ spc' # spc)
          => spc' = IF capI > OfflineLimit THEN "wait4Sync" ELSE "beat"
       /\ (spc' = "wait4Sync" /\ spc # "wait4Sync")
          => (spc = "offline" /\ capI = w4pI /\ w4pI > OfflineLimit)]_vars

\* wait4Peers was interrupted after more failed probes than the limit: it returned
\* 0 and wait4Sync was not called
C29_Witness ==
    /\ spc = "beat" /\ capI = 0 /\ w4pI > OfflineLimit
    /\ height = 0 /\ w4sI = 0 /\ newHeadBlock = NoHash

\* wait4Sync has been called after more failed probes than the limit
C29_WitnessSync ==
    spc = "wait4Sync" /\ capI = w4pI /\ capI > OfflineLimit
====
